---- MODULE Spec2Model ----
(***************************************************************************)
(* Model of the fraud-detection program                                    *)
(* (contracts/programs/fraud-detection/src/lib.rs): the compliance config, *)
(* the per-user risk profile, the high-risk registry, the whitelist, the   *)
(* transaction records and the seven instructions that act on them.        *)
(*                                                                         *)
(* Every instruction is an operator that gives the outcome of the call and *)
(* the accounts it leaves, and an action that applies it.  An instruction  *)
(* that returns Err leaves every account as it was: Anchor writes an       *)
(* account back only after the handler returned Ok, and the runtime        *)
(* discards the writes of a failed transaction.  The variable last keeps   *)
(* the outcome of the last instruction that succeeded.                     *)
(***************************************************************************)
EXTENDS Integers, Sequences, FiniteSets, TLC

(* ------------------------------------------------------------------ *)
(* Bounds of the model                                                 *)
(* ------------------------------------------------------------------ *)

\* Largest value of a u32 field; the width is scaled down so that TLC can
\* reach the wrap-around (the arithmetic is taken modulo U32Max + 1).
U32Max == 1023

\* Largest value of a u64 field, scaled down in the same way.
U64Max == 65535

\* Number of flags the serialized profile has room for: a profile whose
\* flag vector outgrows the account fails to serialize.
MaxFlags == 4

\* Transaction records (evaluations that return a verdict) explored.
MaxRecords == 2

\* Successful update_risk_score_ai and unblock_user instructions explored.
MaxAdminCalls == 2

(* ------------------------------------------------------------------ *)
(* Program constants                                                   *)
(* ------------------------------------------------------------------ *)

SlotsPerDay == 216000

RapidFireSlots == 10

BlockThreshold == 100

KycNoneLimitUsd == 1000

KycBasicLimitUsd == 10000

AiBlockScore == 90

LamportsPerSol == 1000000000

(* ------------------------------------------------------------------ *)
(* Input sets                                                          *)
(* ------------------------------------------------------------------ *)

Users == {"u1"}

Keys == {"admin", "mallory"}

\* Addresses the authority registers or whitelists.
Addrs == {"a1"}

\* Recipients of the monitored transactions.
Recipients == {"a1"}

KYCLevel == {"None", "Basic", "Enhanced"}

TransactionTypes == {"Transfer"}

\* The oracle state with ok = FALSE is a feed account that cannot be read;
\* price is the result of the feed, in USD per SOL.
Feed(price) == [ok |-> TRUE, price |-> price]

FeedDown == [ok |-> FALSE, price |-> 0]

\* <<amount_lamports, oracle state>> of the monitored transactions: worth
\* $500 (500.5 truncated) and $1500, and one with the feed down.
Transfers ==
    {<<500000000, Feed(1001)>>, <<1500000000, Feed(1000)>>,
     <<1000000000, FeedDown>>}

Authorities == {"admin"}

HighValueThresholds == {1500}

VelocityThresholds == {1}

MaxDailyVolumes == {12000}

\* <<ai_risk_score, number of anomaly indicators>> of the
\* update_risk_score_ai calls.
AiUpdates == {<<90, 1>>, <<500, 0>>}

\* Values of Clock::get()?.slot: the start of a daily window, the last slot
\* at which that window has not elapsed, and a slot fewer than 10 slots
\* later, at which it has.
Slots == {0, SlotsPerDay, SlotsPerDay + 9}

NoConfig == [exists |-> FALSE]

NoProfile == [exists |-> FALSE]

NoEntry == [exists |-> FALSE]

VARIABLES
    slot,                \* Clock::get()?.slot
    compliance_config,   \* the ComplianceConfig account
    user_profile,        \* user -> UserProfile account
    risk_registry,       \* address -> RiskRegistry account
    whitelist,           \* address -> Whitelist account
    transaction_record,  \* the TransactionRecord accounts created
    admin_calls,         \* successful update_risk_score_ai / unblock_user calls
    last                 \* outcome of the last successful instruction

vars == <<slot, compliance_config, user_profile, risk_registry, whitelist,
          transaction_record, admin_calls, last>>

(* ------------------------------------------------------------------ *)
(* Arithmetic of the fixed-width fields                                *)
(* ------------------------------------------------------------------ *)

Wrap32(n) == n % (U32Max + 1)

Wrap64(n) == n % (U64Max + 1)

Min(a, b) == IF a < b THEN a ELSE b

(* ------------------------------------------------------------------ *)
(* Flags and severities                                                *)
(* ------------------------------------------------------------------ *)

FraudFlag(type, sev, now) ==
    [flag_type |-> type, severity |-> sev, detected_at_slot |-> now]

\* A weight table that differs from lines 233-238 in the weight of
\* Medium.
SeverityWeightLightMedium(sev) ==
    CASE sev = "Low" -> 1
      [] sev = "Medium" -> 1
      [] sev = "High" -> 15
      [] sev = "Critical" -> 50

\* A weight table that differs from lines 233-238 in the weight of High.
SeverityWeightFlatHigh(sev) ==
    CASE sev = "Low" -> 1
      [] sev = "Medium" -> 5
      [] sev = "High" -> 5
      [] sev = "Critical" -> 50

\* Lines 233-238.
SeverityWeight(sev) ==
    CASE sev = "Low" -> 1
      [] sev = "Medium" -> 5
      [] sev = "High" -> 15
      [] sev = "Critical" -> 50

\* A sum that starts at 1 instead of 0.
RECURSIVE RiskScoreIncreaseFromOne(_)
RiskScoreIncreaseFromOne(flags) ==
    IF flags = <<>> THEN 1
    ELSE SeverityWeight(Head(flags).severity)
             + RiskScoreIncreaseFromOne(Tail(flags))

\* Lines 232-239.
RECURSIVE RiskScoreIncrease(_)
RiskScoreIncrease(flags) ==
    IF flags = <<>> THEN 0
    ELSE SeverityWeight(Head(flags).severity) + RiskScoreIncrease(Tail(flags))

(* ------------------------------------------------------------------ *)
(* get_usd_value_from_oracle                                           *)
(* ------------------------------------------------------------------ *)

\* A conversion that takes a feed that cannot be read as a price of 0.
get_usd_value_or_zero(oracle, amount_lamports) ==
    [ok |-> TRUE,
     value |-> Min(U64Max,
                   ((amount_lamports \div 100000) * oracle.price)
                       \div (LamportsPerSol \div 100000))]

\* lamports / 1e9 * price, truncated by the cast to u64, which saturates.
\* The product is taken in units of 100000 lamports, which is exact for the
\* amounts of Transfers.
get_usd_value_from_oracle(oracle, amount_lamports) ==
    IF ~oracle.ok
    THEN [ok |-> FALSE, value |-> 0]
    ELSE [ok |-> TRUE,
          value |-> Min(U64Max,
                        ((amount_lamports \div 100000) * oracle.price)
                            \div (LamportsPerSol \div 100000))]

(* ------------------------------------------------------------------ *)
(* The rules of monitor_transaction                                    *)
(* ------------------------------------------------------------------ *)

\* A window that has elapsed already at its last slot.
WindowElapsedAtBoundary(now, last_reset) == now - last_reset >= SlotsPerDay

\* A window that never elapses.
WindowNeverElapses(now, last_reset) == FALSE

\* Line 116.
WindowElapsed(now, last_reset) == now - last_reset > SlotsPerDay

\* A window that is never reset.
KeepDailyCounters(p, now) == p

\* A reset that clears the score with the window.
ResetCountersAndScore(p, now) ==
    IF WindowElapsed(now, p.last_daily_reset_slot)
    THEN [p EXCEPT !.daily_transaction_count = 0,
                   !.daily_volume_usd = 0,
                   !.last_daily_reset_slot = now,
                   !.risk_score = 0]
    ELSE p

\* Lines 115-120.
ResetDailyCounters(p, now) ==
    IF WindowElapsed(now, p.last_daily_reset_slot)
    THEN [p EXCEPT !.daily_transaction_count = 0,
                   !.daily_volume_usd = 0,
                   !.last_daily_reset_slot = now]
    ELSE p

\* A high-value rule that fires from the threshold on.
HighValueFromThreshold(usd, cfg) == usd >= cfg.high_value_threshold_usd

HighValueRule(usd, cfg) == usd > cfg.high_value_threshold_usd

\* A velocity rule that fires only beyond the threshold.
VelocityAboveThreshold(p, cfg) ==
    p.daily_transaction_count > cfg.velocity_threshold

VelocityRule(p, cfg) == p.daily_transaction_count >= cfg.velocity_threshold

\* A volume rule that fires from the limit on.
ExcessiveVolumeFromLimit(projected, cfg) ==
    projected >= cfg.max_daily_volume_usd

ExcessiveVolumeRule(projected, cfg) == projected > cfg.max_daily_volume_usd

\* ctx.remaining_accounts.get(0) is there and its data is not empty.
HighRiskRecipientRule(remaining_len) == remaining_len > 0

\* A pattern rule that still fires 10 slots after the last transaction.
UnusualPatternUpToLimit(p, now) ==
    /\ now - p.last_transaction_slot <= RapidFireSlots
    /\ p.total_transaction_count > 0

UnusualPatternRule(p, now) ==
    /\ now - p.last_transaction_slot < RapidFireSlots
    /\ p.total_transaction_count > 0

\* KYC rules that fire from the limit on.
KycRequiredFromLimit(p, usd) == p.kyc_level = "None" /\ usd >= KycNoneLimitUsd

KycUpgradeFromLimit(p, usd) == p.kyc_level = "Basic" /\ usd >= KycBasicLimitUsd

KycRequiredRule(p, usd) == p.kyc_level = "None" /\ usd > KycNoneLimitUsd

KycUpgradeRule(p, usd) == p.kyc_level = "Basic" /\ usd > KycBasicLimitUsd

FlagIf(cond, type, sev, now) ==
    IF cond THEN <<FraudFlag(type, sev, now)>> ELSE <<>>

\* An evaluation that stops at the first rule that forces the block.
EvaluateRulesStoppingAtBlock(p, cfg, usd, projected, remaining_len, now) ==
    FlagIf(HighValueRule(usd, cfg), "HighValueTransaction", "High", now)
    \o FlagIf(VelocityRule(p, cfg), "HighVelocity", "Medium", now)
    \o (IF ExcessiveVolumeRule(projected, cfg)
        THEN <<FraudFlag("ExcessiveVolume", "High", now)>>
        ELSE IF HighRiskRecipientRule(remaining_len)
        THEN <<FraudFlag("HighRiskRecipient", "Critical", now)>>
        ELSE FlagIf(UnusualPatternRule(p, now), "UnusualPattern", "Medium", now)
             \o FlagIf(KycRequiredRule(p, usd), "KYCRequired", "High", now)
             \o FlagIf(KycUpgradeRule(p, usd), "KYCUpgradeRequired", "Medium", now))

\* The flags pushed by lines 136-222, in the order of the pushes.
EvaluateRules(p, cfg, usd, projected, remaining_len, now) ==
    FlagIf(HighValueRule(usd, cfg), "HighValueTransaction", "High", now)
    \o FlagIf(VelocityRule(p, cfg), "HighVelocity", "Medium", now)
    \o FlagIf(ExcessiveVolumeRule(projected, cfg), "ExcessiveVolume", "High", now)
    \o FlagIf(HighRiskRecipientRule(remaining_len), "HighRiskRecipient", "Critical", now)
    \o FlagIf(UnusualPatternRule(p, now), "UnusualPattern", "Medium", now)
    \o FlagIf(KycRequiredRule(p, usd), "KYCRequired", "High", now)
    \o FlagIf(KycUpgradeRule(p, usd), "KYCUpgradeRequired", "Medium", now)

\* Rules that only flag.
RuleNeverBlocks(p, cfg, usd, projected, remaining_len) == FALSE

\* should_block as the rules leave it (lines 168, 181, 206).
RuleShouldBlock(p, cfg, usd, projected, remaining_len) ==
    \/ ExcessiveVolumeRule(projected, cfg)
    \/ HighRiskRecipientRule(remaining_len)
    \/ KycRequiredRule(p, usd)

\* A block from a score of 100 on.
ExceedsFromThreshold(score) == score >= BlockThreshold

\* A block threshold of 150.
ExceedsLaterThreshold(score) == score > BlockThreshold + 50

ExceedsBlockThreshold(score) == score > BlockThreshold

\* A verdict that looks at the flags first.
DetermineStatusFlagsFirst(should_block, flags) ==
    IF flags # <<>> THEN "Flagged"
    ELSE IF should_block THEN "Blocked"
    ELSE "Approved"

DetermineStatus(should_block, flags) ==
    IF should_block THEN "Blocked"
    ELSE IF flags # <<>> THEN "Flagged"
    ELSE "Approved"

\* A check any signer passes.
AnySigner(signer, cfg) == TRUE

IsAuthority(signer, cfg) == signer = cfg.authority

(* ------------------------------------------------------------------ *)
(* Outcomes of an instruction                                          *)
(* ------------------------------------------------------------------ *)

NoFlags == <<>>

\* signer is "-" for the instructions that do not read the signer's key.
Outcome(op, signer, result, status, flags, should_block, usd) ==
    [op |-> op, signer |-> signer, result |-> result, status |-> status,
     flags |-> flags, should_block |-> should_block, usd_amount |-> usd]

Failed(op, signer, err) == Outcome(op, signer, err, "none", NoFlags, FALSE, 0)

Succeeded(op, signer) == Outcome(op, signer, "Ok", "none", NoFlags, FALSE, 0)

\* The account an `init` constraint leaves when the handler returns before
\* writing it: every field is the zero of its type.
ZeroedRecord(key_user, key_slot) ==
    [key_user |-> key_user, key_slot |-> key_slot,
     user |-> "default", recipient |-> "default",
     amount_lamports |-> 0, amount_usd |-> 0,
     transaction_type |-> "Payment", status |-> "Approved",
     flags |-> NoFlags, processed_at_slot |-> 0]

(* ------------------------------------------------------------------ *)
(* monitor_transaction                                                 *)
(* ------------------------------------------------------------------ *)

\* An evaluation without the short circuit.
NeverShortCircuits(p) == FALSE

\* The short circuit of lines 128-131.
AlreadyBlocked(p) == p.is_blocked

\* An update that leaves the counters, the volumes and the slot alone when
\* a rule forced the block.
UpdateProfileSkippingBlocked(p, usd, flags, now) ==
    LET score == Wrap32(p.risk_score + RiskScoreIncrease(flags))
        forced == \E i \in DOMAIN flags :
                     flags[i].flag_type \in
                        {"ExcessiveVolume", "HighRiskRecipient", "KYCRequired"}
        n == IF forced THEN 0 ELSE 1
        v == IF forced THEN 0 ELSE usd
    IN
    [p EXCEPT !.total_transaction_count = Wrap64(p.total_transaction_count + n),
              !.total_volume_usd = Wrap64(p.total_volume_usd + v),
              !.daily_transaction_count = Wrap32(p.daily_transaction_count + n),
              !.daily_volume_usd = Wrap64(p.daily_volume_usd + v),
              !.last_transaction_slot = IF forced THEN p.last_transaction_slot
                                        ELSE now,
              !.risk_score = score,
              !.is_blocked = IF ExceedsBlockThreshold(score) THEN TRUE
                             ELSE p.is_blocked,
              !.flags = p.flags \o flags,
              !.is_flagged = IF flags # <<>> THEN TRUE ELSE p.is_flagged]

\* Lines 224-253: the profile after the counters, the score, the block
\* status and the flags are updated (the sums wrap when the build does
\* not check overflow).
UpdateProfile(p, usd, flags, now) ==
    LET score == Wrap32(p.risk_score + RiskScoreIncrease(flags)) IN
    [p EXCEPT !.total_transaction_count = Wrap64(p.total_transaction_count + 1),
              !.total_volume_usd = Wrap64(p.total_volume_usd + usd),
              !.daily_transaction_count = Wrap32(p.daily_transaction_count + 1),
              !.daily_volume_usd = Wrap64(p.daily_volume_usd + usd),
              !.last_transaction_slot = now,
              !.risk_score = score,
              !.is_blocked = IF ExceedsBlockThreshold(score) THEN TRUE
                             ELSE p.is_blocked,
              !.flags = p.flags \o flags,
              !.is_flagged = IF flags # <<>> THEN TRUE ELSE p.is_flagged]

\* One of the additions of lines 159, 225-228 and 241 overflows.
AdditionOverflows(p, usd, flags) ==
    \/ p.daily_volume_usd + usd > U64Max
    \/ p.total_transaction_count + 1 > U64Max
    \/ p.total_volume_usd + usd > U64Max
    \/ p.daily_transaction_count + 1 > U32Max
    \/ p.risk_score + RiskScoreIncrease(flags) > U32Max

\* The handler run on profile p0: the outcome, the profile and the
\* transaction record it leaves, and whether one of its additions
\* overflowed.  remaining_len is the data length of remaining_accounts[0],
\* 0 when there is none; checks says that the build panics on overflow.
MonitorTransactionHandler(p0, cfg, amount_lamports, recipient, transaction_type, oracle, remaining_len, now, checks) ==
    LET p == ResetDailyCounters(p0, now)
        conv == get_usd_value_from_oracle(oracle, amount_lamports)
        usd == conv.value
        projected == Wrap64(p.daily_volume_usd + usd)
        flags == EvaluateRules(p, cfg, usd, projected, remaining_len, now)
        rule_block == RuleShouldBlock(p, cfg, usd, projected, remaining_len)
        q == UpdateProfile(p, usd, flags, now)
        should_block == rule_block \/ ExceedsBlockThreshold(q.risk_score)
        status == DetermineStatus(should_block, flags)
        op == "monitor_transaction"
        overflow == conv.ok /\ ~AlreadyBlocked(p)
                        /\ AdditionOverflows(p, usd, flags)
        none == ZeroedRecord(p0.user, now)
    IN  IF ~conv.ok
        THEN [out |-> Failed(op, "-", "OracleError"), overflow |-> overflow,
              profile |-> p0, record |-> none]
        ELSE IF AlreadyBlocked(p)
        THEN [out |-> Outcome(op, "-", "Ok", "Blocked", NoFlags, FALSE, usd),
              overflow |-> overflow, profile |-> p, record |-> none]
        ELSE IF checks /\ overflow
        THEN [out |-> Failed(op, "-", "ProgramPanicked"), overflow |-> overflow,
              profile |-> p0, record |-> none]
        ELSE IF Len(q.flags) > MaxFlags
        THEN [out |-> Failed(op, "-", "AccountDidNotSerialize"),
              overflow |-> overflow, profile |-> p0, record |-> none]
        ELSE [out |-> Outcome(op, "-", "Ok", status, flags, should_block, usd),
              overflow |-> overflow,
              profile |-> q,
              record |-> [key_user |-> p0.user, key_slot |-> now,
                          user |-> q.user, recipient |-> recipient,
                          amount_lamports |-> amount_lamports,
                          amount_usd |-> usd,
                          transaction_type |-> transaction_type,
                          status |-> status, flags |-> flags,
                          processed_at_slot |-> now]]

(* ------------------------------------------------------------------ *)
(* The admin handlers                                                  *)
(* ------------------------------------------------------------------ *)

\* A severity whose steps include the step value itself.
AiSeverityFromStep(ai_risk_score) ==
    IF ai_risk_score >= 75 THEN "Critical"
    ELSE IF ai_risk_score >= 50 THEN "High"
    ELSE IF ai_risk_score >= 25 THEN "Medium"
    ELSE "Low"

\* Lines 319-322.
AiSeverity(ai_risk_score) ==
    IF ai_risk_score > 75 THEN "Critical"
    ELSE IF ai_risk_score > 50 THEN "High"
    ELSE IF ai_risk_score > 25 THEN "Medium"
    ELSE "Low"

RECURSIVE AiFlags(_, _, _)
AiFlags(n, ai_risk_score, now) ==
    IF n = 0 THEN <<>>
    ELSE <<FraudFlag("AIAnomaly", AiSeverity(ai_risk_score), now)>>
             \o AiFlags(n - 1, ai_risk_score, now)

\* A blend that blocks from an AI score of 76 on.
AiForcesBlockAbove75(ai_risk_score) == ai_risk_score > 75

\* Lines 328-331.
AiForcesBlock(ai_risk_score) == ai_risk_score > AiBlockScore

\* A blend that sets is_blocked to what the AI score alone says.
BlendAiScoreClearing(p, ai_risk_score, n, now) ==
    [p EXCEPT !.risk_score = Wrap32(p.risk_score + ai_risk_score) \div 2,
              !.flags = p.flags \o AiFlags(n, ai_risk_score, now),
              !.is_blocked = AiForcesBlock(ai_risk_score)]

\* A blend that adds the AI score and does not halve the sum.
BlendAiScoreAdding(p, ai_risk_score, n, now) ==
    [p EXCEPT !.risk_score = Wrap32(p.risk_score + ai_risk_score),
              !.flags = p.flags \o AiFlags(n, ai_risk_score, now),
              !.is_blocked = IF AiForcesBlock(ai_risk_score) THEN TRUE
                             ELSE p.is_blocked]

\* A blend that blocks when the blended score is above the threshold.
BlendAiScoreBlockingOnScore(p, ai_risk_score, n, now) ==
    [p EXCEPT !.risk_score = Wrap32(p.risk_score + ai_risk_score) \div 2,
              !.flags = p.flags \o AiFlags(n, ai_risk_score, now),
              !.is_blocked =
                 IF \/ AiForcesBlock(ai_risk_score)
                    \/ Wrap32(p.risk_score + ai_risk_score) \div 2
                          > BlockThreshold
                 THEN TRUE ELSE p.is_blocked]

\* Lines 312-331, for n anomaly indicators.
BlendAiScore(p, ai_risk_score, n, now) ==
    [p EXCEPT !.risk_score = Wrap32(p.risk_score + ai_risk_score) \div 2,
              !.flags = p.flags \o AiFlags(n, ai_risk_score, now),
              !.is_blocked = IF AiForcesBlock(ai_risk_score) THEN TRUE
                             ELSE p.is_blocked]

\* An unblock that also clears the flag history.
UnblockClearingFlags(p) ==
    [p EXCEPT !.is_blocked = FALSE, !.risk_score = p.risk_score \div 2,
              !.flags = <<>>]

\* An unblock that clears the block and keeps the score.
UnblockKeepingScore(p) == [p EXCEPT !.is_blocked = FALSE]

\* Lines 381-382.
Unblock(p) ==
    [p EXCEPT !.is_blocked = FALSE, !.risk_score = p.risk_score \div 2]

\* A registration that starts the daily window at slot 0.
NewProfileWindowAtZero(user_pubkey, kyc_level, now) ==
    [exists |-> TRUE, user |-> user_pubkey, kyc_level |-> kyc_level,
     risk_score |-> 0, total_transaction_count |-> 0, total_volume_usd |-> 0,
     daily_transaction_count |-> 0, daily_volume_usd |-> 0,
     last_transaction_slot |-> 0, last_daily_reset_slot |-> 0,
     is_flagged |-> FALSE, is_blocked |-> FALSE, flags |-> <<>>]

\* Lines 46-60; sns_domain, which no instruction reads, is left out.
NewProfile(user_pubkey, kyc_level, now) ==
    [exists |-> TRUE, user |-> user_pubkey, kyc_level |-> kyc_level,
     risk_score |-> 0, total_transaction_count |-> 0, total_volume_usd |-> 0,
     daily_transaction_count |-> 0, daily_volume_usd |-> 0,
     last_transaction_slot |-> 0, last_daily_reset_slot |-> now,
     is_flagged |-> FALSE, is_blocked |-> FALSE, flags |-> <<>>]

\* Lines 18-27; the counters and the slot of the config, which no
\* instruction reads, are left out.
NewConfig(authority, high_value_threshold_usd, velocity_threshold, max_daily_volume_usd) ==
    [exists |-> TRUE, authority |-> authority,
     high_value_threshold_usd |-> high_value_threshold_usd,
     velocity_threshold |-> velocity_threshold,
     max_daily_volume_usd |-> max_daily_volume_usd,
     is_active |-> TRUE]

\* Lines 87-93 and 356-359; the category, the description and the slot of
\* the entry, which no instruction reads, are left out.
NewEntry(address) == [exists |-> TRUE, address |-> address, is_active |-> TRUE]

(* ------------------------------------------------------------------ *)
(* Accounts passed to monitor_transaction as remaining_accounts[0]     *)
(* ------------------------------------------------------------------ *)

RemainingAccounts ==
    {<<"none", "-">>} \cup {<<"risk_registry", a>> : a \in Addrs}

\* Other accounts of the program a caller can pass in that position: the
\* handler reads only the length of the data (lines 172-174), not the
\* owner, the address or the type of the account.
OtherAccounts ==
    {<<"whitelist", a>> : a \in Addrs} \cup {<<"compliance_config", "-">>}

\* Data length of the account: an account that was never created is empty.
DataLen(account) ==
    IF account[1] = "risk_registry"
    THEN (IF risk_registry[account[2]].exists THEN 1 ELSE 0)
    ELSE IF account[1] = "whitelist"
    THEN (IF whitelist[account[2]].exists THEN 1 ELSE 0)
    ELSE IF account[1] = "compliance_config"
    THEN (IF compliance_config.exists THEN 1 ELSE 0)
    ELSE 0

\* The record account of seeds (user, slot) is there already.
RecordExists(user, now) ==
    \E r \in transaction_record : r.key_user = user /\ r.key_slot = now

(* ------------------------------------------------------------------ *)
(* The instructions as calls: the outcome and the accounts they leave  *)
(* in the current state.  The accounts are validated in the order of   *)
(* the Accounts struct, before the handler runs.                       *)
(* ------------------------------------------------------------------ *)

\* signer is the `authority` account of RegisterUserProfile: it pays for the
\* profile, and the handler compares it with nothing.
register_user_profile(signer, u, kyc_level) ==
    LET op == "register_user_profile" IN
    IF user_profile[u].exists
    THEN [out |-> Failed(op, signer, "AccountInUse"), profile |-> user_profile[u]]
    ELSE [out |-> Succeeded(op, signer), profile |-> NewProfile(u, kyc_level, slot)]

add_high_risk_address(signer, a) ==
    LET op == "add_high_risk_address"
        old == risk_registry[a]
    IN  IF old.exists
        THEN [out |-> Failed(op, signer, "AccountInUse"), entry |-> old]
        ELSE IF ~compliance_config.exists
        THEN [out |-> Failed(op, signer, "AccountNotInitialized"), entry |-> old]
        ELSE IF ~IsAuthority(signer, compliance_config)
        THEN [out |-> Failed(op, signer, "UnauthorizedAccess"), entry |-> old]
        ELSE [out |-> Succeeded(op, signer), entry |-> NewEntry(a)]

whitelist_address(signer, a) ==
    LET op == "whitelist_address"
        old == whitelist[a]
    IN  IF old.exists
        THEN [out |-> Failed(op, signer, "AccountInUse"), entry |-> old]
        ELSE IF ~compliance_config.exists
        THEN [out |-> Failed(op, signer, "AccountNotInitialized"), entry |-> old]
        ELSE IF ~IsAuthority(signer, compliance_config)
        THEN [out |-> Failed(op, signer, "UnauthorizedAccess"), entry |-> old]
        ELSE [out |-> Succeeded(op, signer), entry |-> NewEntry(a)]

\* n is the number of anomaly indicators; checks says that the build
\* panics on arithmetic overflow (it wraps otherwise).
update_risk_score_ai(signer, u, ai_risk_score, n, checks) ==
    LET op == "update_risk_score_ai"
        p == user_profile[u]
        q == BlendAiScore(p, ai_risk_score, n, slot)
    IN  IF ~p.exists \/ ~compliance_config.exists
        THEN [out |-> Failed(op, signer, "AccountNotInitialized"), profile |-> p]
        ELSE IF ~IsAuthority(signer, compliance_config)
        THEN [out |-> Failed(op, signer, "UnauthorizedAccess"), profile |-> p]
        ELSE IF checks /\ p.risk_score + ai_risk_score > U32Max
        THEN [out |-> Failed(op, signer, "ProgramPanicked"), profile |-> p]
        ELSE IF Len(q.flags) > MaxFlags
        THEN [out |-> Failed(op, signer, "AccountDidNotSerialize"), profile |-> p]
        ELSE [out |-> Succeeded(op, signer), profile |-> q]

unblock_user(signer, u) ==
    LET op == "unblock_user"
        p == user_profile[u]
    IN  IF ~p.exists \/ ~compliance_config.exists
        THEN [out |-> Failed(op, signer, "AccountNotInitialized"), profile |-> p]
        ELSE IF ~IsAuthority(signer, compliance_config)
        THEN [out |-> Failed(op, signer, "UnauthorizedAccess"), profile |-> p]
        ELSE [out |-> Succeeded(op, signer), profile |-> Unblock(p)]

monitor_transaction(u, amount_lamports, recipient, transaction_type, oracle, remaining, checks) ==
    LET op == "monitor_transaction"
        p == user_profile[u]
        none == [key_user |-> u, key_slot |-> slot]
    IN  IF ~p.exists \/ ~compliance_config.exists
        THEN [out |-> Failed(op, "-", "AccountNotInitialized"),
              overflow |-> FALSE, profile |-> p, record |-> none]
        ELSE IF RecordExists(p.user, slot)
        THEN [out |-> Failed(op, "-", "AccountInUse"),
              overflow |-> FALSE, profile |-> p, record |-> none]
        ELSE MonitorTransactionHandler(p, compliance_config, amount_lamports,
                                       recipient, transaction_type, oracle,
                                       DataLen(remaining), slot, checks)

(* ------------------------------------------------------------------ *)
(* Initial state                                                       *)
(* ------------------------------------------------------------------ *)

Init ==
    /\ slot = 0
    /\ compliance_config = NoConfig
    /\ user_profile = [u \in Users |-> NoProfile]
    /\ risk_registry = [a \in Addrs |-> NoEntry]
    /\ whitelist = [a \in Addrs |-> NoEntry]
    /\ transaction_record = {}
    /\ admin_calls = 0
    /\ last = Succeeded("deploy", "-")

(* ------------------------------------------------------------------ *)
(* Actions                                                             *)
(* ------------------------------------------------------------------ *)

AdvanceSlot(s) ==
    /\ s > slot
    /\ slot' = s
    /\ last' = Succeeded("advance_slot", "-")
    /\ UNCHANGED <<compliance_config, user_profile, risk_registry, whitelist,
                   transaction_record, admin_calls>>

\* The config account is created once (`init`, fixed seeds).
InitializeComplianceModule(authority, hv, vel, vol) ==
    /\ ~compliance_config.exists
    /\ compliance_config' = NewConfig(authority, hv, vel, vol)
    /\ last' = Succeeded("initialize_compliance_module", "-")
    /\ UNCHANGED <<slot, user_profile, risk_registry, whitelist,
                   transaction_record, admin_calls>>

RegisterUserProfile(signer, u, kyc_level) ==
    LET c == register_user_profile(signer, u, kyc_level) IN
    IF c.out.result # "Ok" THEN UNCHANGED vars
    ELSE /\ user_profile' = [user_profile EXCEPT ![u] = c.profile]
         /\ last' = c.out
         /\ UNCHANGED <<slot, compliance_config, risk_registry, whitelist,
                        transaction_record, admin_calls>>

AddHighRiskAddress(signer, a) ==
    LET c == add_high_risk_address(signer, a) IN
    IF c.out.result # "Ok" THEN UNCHANGED vars
    ELSE /\ risk_registry' = [risk_registry EXCEPT ![a] = c.entry]
         /\ last' = c.out
         /\ UNCHANGED <<slot, compliance_config, user_profile, whitelist,
                        transaction_record, admin_calls>>

WhitelistAddress(signer, a) ==
    LET c == whitelist_address(signer, a) IN
    IF c.out.result # "Ok" THEN UNCHANGED vars
    ELSE /\ whitelist' = [whitelist EXCEPT ![a] = c.entry]
         /\ last' = c.out
         /\ UNCHANGED <<slot, compliance_config, user_profile, risk_registry,
                        transaction_record, admin_calls>>

UpdateRiskScoreAi(signer, u, ai_risk_score, n, checks) ==
    LET c == update_risk_score_ai(signer, u, ai_risk_score, n, checks) IN
    IF c.out.result # "Ok" THEN UNCHANGED vars
    ELSE /\ admin_calls < MaxAdminCalls
         /\ admin_calls' = admin_calls + 1
         /\ user_profile' = [user_profile EXCEPT ![u] = c.profile]
         /\ last' = c.out
         /\ UNCHANGED <<slot, compliance_config, risk_registry, whitelist,
                        transaction_record>>

UnblockUser(signer, u) ==
    LET c == unblock_user(signer, u) IN
    IF c.out.result # "Ok" THEN UNCHANGED vars
    ELSE /\ admin_calls < MaxAdminCalls
         /\ admin_calls' = admin_calls + 1
         /\ user_profile' = [user_profile EXCEPT ![u] = c.profile]
         /\ last' = c.out
         /\ UNCHANGED <<slot, compliance_config, risk_registry, whitelist,
                        transaction_record>>

\* monitor_transaction, explored while fewer than max_records records
\* exist.
MonitorTransactionWithin(max_records, u, amount_lamports, recipient, transaction_type, oracle, remaining, checks) ==
    LET c == monitor_transaction(u, amount_lamports, recipient,
                                 transaction_type, oracle, remaining, checks)
    IN  IF c.out.result # "Ok" THEN UNCHANGED vars
        ELSE /\ Cardinality(transaction_record) < max_records
             /\ user_profile' = [user_profile EXCEPT ![u] = c.profile]
             /\ transaction_record' = transaction_record \cup {c.record}
             /\ last' = c.out
             /\ UNCHANGED <<slot, compliance_config, risk_registry, whitelist,
                            admin_calls>>

MonitorTransaction(u, amount_lamports, recipient, transaction_type, oracle, remaining, checks) ==
    MonitorTransactionWithin(MaxRecords, u, amount_lamports, recipient,
                             transaction_type, oracle, remaining, checks)

\* The instructions, with their arguments drawn from the given sets.
NextOver(kyc_levels, transfers, recipients, remaining_accounts, ai_updates) ==
    \/ \E s \in Slots : AdvanceSlot(s)
    \/ \E k \in Authorities, hv \in HighValueThresholds,
          vel \in VelocityThresholds, vol \in MaxDailyVolumes :
          InitializeComplianceModule(k, hv, vel, vol)
    \/ \E k \in Keys, u \in Users, kyc \in kyc_levels :
          RegisterUserProfile(k, u, kyc)
    \/ \E k \in Keys, a \in Addrs : AddHighRiskAddress(k, a)
    \/ \E k \in Keys, a \in Addrs : WhitelistAddress(k, a)
    \/ \E k \in Keys, u \in Users, ai \in ai_updates, checks \in BOOLEAN :
          UpdateRiskScoreAi(k, u, ai[1], ai[2], checks)
    \/ \E k \in Keys, u \in Users : UnblockUser(k, u)
    \/ \E u \in Users, tr \in transfers, rcp \in recipients,
          tt \in TransactionTypes, rem \in remaining_accounts,
          checks \in BOOLEAN :
          MonitorTransaction(u, tr[1], rcp, tt, tr[2], rem, checks)

Next ==
    NextOver({"None", "Enhanced"}, Transfers, Recipients, RemainingAccounts,
             AiUpdates)

Spec == Init /\ [][Next]_vars

\* Transfers whose USD value is more than half of the largest u64: the sum
\* of two of them does not fit.  The feed is an account the caller passes
\* (an unchecked AccountInfo), so its price is the caller's choice.
LargeTransfers == {<<1000000000, Feed(40000)>>}

\* The instructions with large transfers, for the arithmetic of the
\* counters.
NextOverflow ==
    NextOver({"Enhanced"}, LargeTransfers, Recipients, {<<"none", "-">>},
             AiUpdates)

SpecOverflow == Init /\ [][NextOverflow]_vars

\* The instructions with any account of the program passed as
\* remaining_accounts[0].
NextAccounts ==
    NextOver({"Enhanced"}, {<<500000000, Feed(1001)>>}, Recipients,
             RemainingAccounts \cup OtherAccounts, AiUpdates)

SpecAccounts == Init /\ [][NextAccounts]_vars

\* AI scores on both sides of every severity step (25, 50, 75) and of the
\* blocking step (90), with 0, 1 or 2 anomaly indicators.
AiBandUpdates ==
    {<<25, 1>>, <<26, 1>>, <<50, 2>>, <<51, 1>>, <<75, 1>>, <<76, 1>>,
     <<90, 0>>, <<91, 0>>}

\* The instructions that read or write a profile, with these AI updates;
\* the two registries, which update_risk_score_ai does not touch, stay
\* empty.
NextAi ==
    \/ \E s \in Slots : AdvanceSlot(s)
    \/ \E k \in Authorities, hv \in HighValueThresholds,
          vel \in VelocityThresholds, vol \in MaxDailyVolumes :
          InitializeComplianceModule(k, hv, vel, vol)
    \/ \E k \in Keys, u \in Users : RegisterUserProfile(k, u, "Enhanced")
    \/ \E k \in Keys, u \in Users, ai \in AiBandUpdates, checks \in BOOLEAN :
          UpdateRiskScoreAi(k, u, ai[1], ai[2], checks)
    \/ \E k \in Keys, u \in Users : UnblockUser(k, u)
    \/ \E u \in Users, rcp \in Recipients, tt \in TransactionTypes,
          checks \in BOOLEAN :
          MonitorTransaction(u, 500000000, rcp, tt, Feed(1001),
                             <<"none", "-">>, checks)

SpecAi == Init /\ [][NextAi]_vars

\* The instructions with a config whose velocity threshold is 0 as well:
\* the thresholds are arguments of initialize_compliance_module.
NextZeroVelocity ==
    \/ NextOver({"Enhanced"}, {<<500000000, Feed(1001)>>}, Recipients,
                {<<"none", "-">>}, AiUpdates)
    \/ \E k \in Authorities, hv \in HighValueThresholds,
          vol \in MaxDailyVolumes :
          InitializeComplianceModule(k, hv, 0, vol)

SpecZeroVelocity == Init /\ [][NextZeroVelocity]_vars

\* Transfers of one SOL at a price on both sides of the two KYC limits.
KycTransfers ==
    {<<1000000000, Feed(1000)>>, <<1000000000, Feed(1001)>>,
     <<1000000000, Feed(10000)>>, <<1000000000, Feed(10001)>>}

\* The instructions with profiles of every KYC level and these transfers.
NextKyc ==
    NextOver(KYCLevel, KycTransfers, Recipients, {<<"none", "-">>},
             {<<90, 1>>})

SpecKyc == Init /\ [][NextKyc]_vars

\* The instructions that read or write a profile, over the given KYC
\* levels, transfers and AI updates; the two registries stay empty.
NextProfileOnly(kyc_levels, transfers, ai_updates) ==
    \/ \E s \in Slots : AdvanceSlot(s)
    \/ \E k \in Authorities, hv \in HighValueThresholds,
          vel \in VelocityThresholds, vol \in MaxDailyVolumes :
          InitializeComplianceModule(k, hv, vel, vol)
    \/ \E k \in Keys, u \in Users, kyc \in kyc_levels :
          RegisterUserProfile(k, u, kyc)
    \/ \E k \in Keys, u \in Users, ai \in ai_updates, checks \in BOOLEAN :
          UpdateRiskScoreAi(k, u, ai[1], ai[2], checks)
    \/ \E k \in Keys, u \in Users : UnblockUser(k, u)
    \/ \E u \in Users, tr \in transfers, rcp \in Recipients,
          tt \in TransactionTypes, checks \in BOOLEAN :
          MonitorTransaction(u, tr[1], rcp, tt, tr[2], <<"none", "-">>,
                             checks)

\* Transfers of one SOL at a price on both sides of the high-value
\* threshold (1500), and two whose sums are the daily limit (12000) and
\* one dollar more.
AmountTransfers ==
    {<<1000000000, Feed(1500)>>, <<1000000000, Feed(1501)>>,
     <<1000000000, Feed(6000)>>, <<1000000000, Feed(6001)>>}

NextAmounts == NextProfileOnly({"Enhanced"}, AmountTransfers, {<<90, 1>>})

SpecAmounts == Init /\ [][NextAmounts]_vars

\* Slots 9 and 10 after slot 0: on both sides of the rapid-fire limit.
RapidSlots == {9, 10}

\* The instructions that read or write a profile, with these slots too.
NextRapid ==
    \/ \E s \in RapidSlots : AdvanceSlot(s)
    \/ NextProfileOnly({"Enhanced"}, {<<500000000, Feed(1001)>>},
                       {<<91, 0>>})

SpecRapid == Init /\ [][NextRapid]_vars

\* Transfers of one SOL at $1000, $1001 and $11001: with them every rule
\* fires in some evaluation, and the high-value, volume and recipient
\* rules in one.
OrderTransfers ==
    {<<1000000000, Feed(1000)>>, <<1000000000, Feed(1001)>>,
     <<1000000000, Feed(11001)>>}

NextOrder ==
    NextOver({"None", "Enhanced"}, OrderTransfers, Recipients,
             RemainingAccounts, {<<90, 1>>})

SpecOrder == Init /\ [][NextOrder]_vars

\* The instructions of a run without update_risk_score_ai and
\* unblock_user, with one evaluation per slot (the record of an evaluation
\* is seeded by the user and the slot).
NextNoAdmin ==
    \/ \E s \in Slots : AdvanceSlot(s)
    \/ \E k \in Authorities, hv \in HighValueThresholds,
          vel \in VelocityThresholds, vol \in MaxDailyVolumes :
          InitializeComplianceModule(k, hv, vel, vol)
    \/ \E k \in Keys, u \in Users, kyc \in {"None", "Enhanced"} :
          RegisterUserProfile(k, u, kyc)
    \/ \E k \in Keys, a \in Addrs : AddHighRiskAddress(k, a)
    \/ \E u \in Users, tr \in Transfers, rcp \in Recipients,
          tt \in TransactionTypes, rem \in RemainingAccounts,
          checks \in BOOLEAN :
          MonitorTransactionWithin(Cardinality(Slots), u, tr[1], rcp, tt,
                                   tr[2], rem, checks)

SpecNoAdmin == Init /\ [][NextNoAdmin]_vars

(* ------------------------------------------------------------------ *)
(* Properties                                                          *)
(* ------------------------------------------------------------------ *)

\* The step is a monitor_transaction of u that returned a verdict: it
\* created the transaction record of (u, slot).
Evaluated(u) ==
    \E r \in transaction_record' \ transaction_record : r.key_user = u

\* The accounts of a monitor_transaction of u pass validation.
CanEvaluate(u) ==
    /\ user_profile[u].exists
    /\ compliance_config.exists
    /\ ~RecordExists(u, slot)

\* The last successful instruction was a monitor_transaction that took
\* the short circuit, or one that ran the rules.
LastShortCircuited ==
    /\ last.op = "monitor_transaction"
    /\ last.status = "Blocked"
    /\ ~last.should_block

LastRanRules ==
    /\ last.op = "monitor_transaction"
    /\ ~LastShortCircuited

\* The flags that the rules push together with should_block = true.
BlockingFlagTypes == {"ExcessiveVolume", "HighRiskRecipient", "KYCRequired"}

RuleForcedBlock(flags) ==
    \E i \in DOMAIN flags : flags[i].flag_type \in BlockingFlagTypes

\* The weights as the specification states them.
StatedWeight(sev) ==
    CASE sev = "Low" -> 1
      [] sev = "Medium" -> 5
      [] sev = "High" -> 15
      [] sev = "Critical" -> 50

RECURSIVE StatedWeightSum(_)
StatedWeightSum(flags) ==
    IF flags = <<>> THEN 0
    ELSE StatedWeight(Head(flags).severity) + StatedWeightSum(Tail(flags))

\* C1: an evaluation of a non-blocked profile that leaves risk_score above
\* 100 leaves is_blocked true and returns Blocked, whichever rules fired.
C1_ThresholdBlocks ==
    [][\A u \in Users :
          (/\ Evaluated(u)
           /\ ~user_profile[u].is_blocked
           /\ user_profile'[u].risk_score > 100)
          => (/\ user_profile'[u].is_blocked
              /\ last'.status = "Blocked"
              /\ last'.should_block)]_vars

\* An evaluation whose flags took the score from at most 100 to above 100.
C1_Witness ==
    \E u \in Users :
        /\ LastRanRules
        /\ user_profile[u].exists
        /\ last.flags # NoFlags
        /\ user_profile[u].risk_score > 100
        /\ user_profile[u].risk_score - StatedWeightSum(last.flags) <= 100
        /\ user_profile[u].is_blocked

\* C2 as stated: every evaluation of a blocked profile returns Blocked
\* without evaluating a rule, also when the price feed cannot be read.
C2_BlockedEvenWithoutOracle ==
    \A u \in Users :
        (CanEvaluate(u) /\ user_profile[u].is_blocked) =>
            \A tr \in Transfers, rcp \in Recipients, tt \in TransactionTypes,
               rem \in RemainingAccounts, checks \in BOOLEAN :
                LET c == monitor_transaction(u, tr[1], rcp, tt, tr[2], rem,
                                             checks)
                IN  /\ c.out.result = "Ok"
                    /\ c.out.status = "Blocked"
                    /\ c.out.flags = NoFlags

\* C2: every evaluation of a blocked profile for which the price feed can
\* be read returns Blocked without evaluating a rule (no flag, no change
\* of the score, the totals or the flag history); when the feed cannot be
\* read the call returns the oracle's error and no verdict, because the
\* conversion precedes the block check.
C2_BlockedShortCircuit ==
    \A u \in Users :
        (CanEvaluate(u) /\ user_profile[u].is_blocked) =>
            \A tr \in Transfers, rcp \in Recipients, tt \in TransactionTypes,
               rem \in RemainingAccounts, checks \in BOOLEAN :
                LET c == monitor_transaction(u, tr[1], rcp, tt, tr[2], rem,
                                             checks)
                    p == user_profile[u]
                IN  IF tr[2].ok
                    THEN /\ c.out.result = "Ok"
                         /\ c.out.status = "Blocked"
                         /\ c.out.flags = NoFlags
                         /\ c.profile.risk_score = p.risk_score
                         /\ c.profile.flags = p.flags
                         /\ c.profile.total_transaction_count
                                = p.total_transaction_count
                         /\ c.profile.is_blocked
                    ELSE /\ c.out.result = "OracleError"
                         /\ c.out.status = "none"

\* A blocked profile was evaluated and the evaluation took the short
\* circuit.
C2_Witness ==
    \E u \in Users :
        /\ LastShortCircuited
        /\ user_profile[u].exists
        /\ user_profile[u].is_blocked
        /\ RecordExists(u, slot)

\* C3: an evaluation of a blocked profile changes nothing in the profile
\* except the daily-window fields: when more than 216000 slots have passed
\* since the last reset the daily count and volume become 0 and the reset
\* slot becomes the current slot, otherwise they stay too.
C3_BlockedFrame ==
    [][\A u \in Users :
          (Evaluated(u) /\ user_profile[u].is_blocked) =>
              LET p == user_profile[u]
                  q == user_profile'[u]
              IN  /\ q.total_transaction_count = p.total_transaction_count
                  /\ q.total_volume_usd = p.total_volume_usd
                  /\ q.last_transaction_slot = p.last_transaction_slot
                  /\ q.risk_score = p.risk_score
                  /\ q.is_flagged = p.is_flagged
                  /\ q.is_blocked = p.is_blocked
                  /\ q.flags = p.flags
                  /\ q.kyc_level = p.kyc_level
                  /\ q.user = p.user
                  /\ IF slot - p.last_daily_reset_slot > 216000
                     THEN /\ q.daily_transaction_count = 0
                          /\ q.daily_volume_usd = 0
                          /\ q.last_daily_reset_slot = slot
                     ELSE /\ q.daily_transaction_count
                                 = p.daily_transaction_count
                          /\ q.daily_volume_usd = p.daily_volume_usd
                          /\ q.last_daily_reset_slot
                                 = p.last_daily_reset_slot]_vars

\* A blocked profile that had transacted in the window before was
\* evaluated after that window had elapsed: the evaluation reset the window
\* and left the totals.
C3_Witness ==
    \E u \in Users :
        /\ LastShortCircuited
        /\ user_profile[u].exists
        /\ user_profile[u].is_blocked
        /\ user_profile[u].total_transaction_count > 0
        /\ user_profile[u].last_transaction_slot < slot
        /\ user_profile[u].daily_transaction_count = 0
        /\ user_profile[u].last_daily_reset_slot = slot

\* C4: is_blocked goes from true to false only in an unblock_user signed by
\* the authority; no other instruction and no passing of time clears it.
C4_OnlyUnblockClears ==
    [][\A u \in Users :
          (/\ user_profile[u].exists
           /\ user_profile[u].is_blocked
           /\ ~user_profile'[u].is_blocked)
          => (/\ last'.op = "unblock_user"
              /\ last'.signer = compliance_config.authority
              /\ slot' = slot)]_vars

\* An unblock_user has cleared the block of a profile whose score is still
\* above 100.
C4_Witness ==
    \E u \in Users :
        /\ last.op = "unblock_user"
        /\ user_profile[u].exists
        /\ ~user_profile[u].is_blocked
        /\ user_profile[u].risk_score > 100

\* C5 as stated: an evaluation of a non-blocked profile in which a rule
\* forces should_block leaves is_blocked true.
C5_RuleBlockPersists ==
    [][\A u \in Users :
          (/\ Evaluated(u)
           /\ ~user_profile[u].is_blocked
           /\ RuleForcedBlock(last'.flags))
          => user_profile'[u].is_blocked]_vars

\* C5: an evaluation of a non-blocked profile in which a rule forces
\* should_block returns Blocked, and leaves is_blocked true exactly when
\* the resulting risk_score is above 100.
C5_RuleBlockIsPerTransaction ==
    [][\A u \in Users :
          (/\ Evaluated(u)
           /\ ~user_profile[u].is_blocked
           /\ RuleForcedBlock(last'.flags))
          => (/\ last'.status = "Blocked"
              /\ last'.should_block
              /\ (user_profile'[u].is_blocked
                      <=> user_profile'[u].risk_score > 100))]_vars

\* A KYC-None profile after its first transaction, one of $1500: verdict
\* Blocked, risk_score 15, and the profile is not blocked.
C5_Witness ==
    \E u \in Users :
        /\ LastRanRules
        /\ user_profile[u].exists
        /\ user_profile[u].kyc_level = "None"
        /\ user_profile[u].total_transaction_count = 1
        /\ last.usd_amount = 1500
        /\ last.status = "Blocked"
        /\ user_profile[u].risk_score = 15
        /\ ~user_profile[u].is_blocked

\* C6: an evaluation of a non-blocked profile leaves risk_score at its
\* value before plus the sum of the weights (Low 1, Medium 5, High 15,
\* Critical 50) of the flags it raised, and appends exactly those flags.
C6_ScoreIsFlagSum ==
    [][\A u \in Users :
          (Evaluated(u) /\ ~user_profile[u].is_blocked) =>
              /\ user_profile'[u].risk_score
                     = user_profile[u].risk_score + StatedWeightSum(last'.flags)
              /\ user_profile'[u].flags = user_profile[u].flags \o last'.flags
      ]_vars

\* An evaluation raised flags of two different severities.
C6_Witness ==
    \E u \in Users :
        /\ LastRanRules
        /\ user_profile[u].exists
        /\ \E i, j \in DOMAIN last.flags :
               /\ last.flags[i].severity = "High"
               /\ last.flags[j].severity = "Medium"

\* C7: the verdict of an evaluation that ran the rules is Blocked if a rule
\* forced should_block or the score is above 100, otherwise Flagged if a
\* flag was raised, otherwise Approved; the transaction record holds it.
C7_VerdictOrder ==
    [][\A u \in Users :
          (Evaluated(u) /\ ~user_profile[u].is_blocked) =>
              LET should_block == \/ RuleForcedBlock(last'.flags)
                                  \/ user_profile'[u].risk_score > 100
                  verdict == IF should_block THEN "Blocked"
                             ELSE IF last'.flags # <<>> THEN "Flagged"
                             ELSE "Approved"
              IN  /\ last'.status = verdict
                  /\ last'.should_block = should_block
                  /\ \A r \in transaction_record' \ transaction_record :
                         r.status = verdict]_vars

\* An evaluation raised a flag and none that blocks: the verdict is
\* Flagged.
C7_Witness ==
    /\ LastRanRules
    /\ last.flags # NoFlags
    /\ ~last.should_block
    /\ last.status = "Flagged"

\* C8 as stated: an evaluation of a non-blocked profile in which no rule
\* fires returns Approved and leaves risk_score, is_flagged and is_blocked
\* as they were, whatever the risk_score of the profile.
C8_NoFlagAlwaysApproved ==
    [][\A u \in Users :
          (/\ Evaluated(u)
           /\ ~user_profile[u].is_blocked
           /\ last'.flags = NoFlags)
          => (/\ last'.status = "Approved"
              /\ user_profile'[u].risk_score = user_profile[u].risk_score
              /\ user_profile'[u].is_flagged = user_profile[u].is_flagged
              /\ user_profile'[u].is_blocked = user_profile[u].is_blocked)
      ]_vars

\* C8: an evaluation of a non-blocked profile in which no rule fires leaves
\* risk_score and is_flagged as they were; when risk_score is at most 100
\* it returns Approved and leaves the profile not blocked, and when
\* risk_score is above 100 (after an unblock) it returns Blocked and sets
\* is_blocked.
C8_NoFlagApprovedUpTo100 ==
    [][\A u \in Users :
          (/\ Evaluated(u)
           /\ ~user_profile[u].is_blocked
           /\ last'.flags = NoFlags)
          => (/\ user_profile'[u].risk_score = user_profile[u].risk_score
              /\ user_profile'[u].is_flagged = user_profile[u].is_flagged
              /\ IF user_profile[u].risk_score <= 100
                 THEN /\ last'.status = "Approved"
                      /\ ~user_profile'[u].is_blocked
                 ELSE /\ last'.status = "Blocked"
                      /\ user_profile'[u].is_blocked)]_vars

\* A profile with a score between 1 and 100 was evaluated, no rule fired
\* and the verdict is Approved.
C8_Witness ==
    \E u \in Users :
        /\ LastRanRules
        /\ last.flags = NoFlags
        /\ last.status = "Approved"
        /\ user_profile[u].exists
        /\ user_profile[u].risk_score > 0
        /\ ~user_profile[u].is_blocked

\* C9: a monitor_transaction whose price feed cannot be read returns an
\* error and no verdict, whether the profile is blocked or not, and leaves
\* the profile as it was, the daily window included.
C9_OracleFailureAborts ==
    \A u \in Users :
        CanEvaluate(u) =>
            \A tr \in Transfers, rcp \in Recipients, tt \in TransactionTypes,
               rem \in RemainingAccounts, checks \in BOOLEAN :
                LET c == monitor_transaction(u, tr[1], rcp, tt, tr[2], rem,
                                             checks)
                IN  ~tr[2].ok =>
                        /\ c.out.result = "OracleError"
                        /\ c.out.status \notin {"Approved", "Flagged", "Blocked"}
                        /\ c.profile = user_profile[u]

\* A non-blocked profile that has transacted can be evaluated in a slot at
\* which its daily window has elapsed: a reset would show.
C9_Witness ==
    \E u \in Users :
        /\ CanEvaluate(u)
        /\ ~user_profile[u].is_blocked
        /\ user_profile[u].daily_transaction_count > 0
        /\ slot - user_profile[u].last_daily_reset_slot > 216000

AdminOps ==
    {"add_high_risk_address", "whitelist_address", "update_risk_score_ai",
     "unblock_user"}

\* C10: add_high_risk_address, whitelist_address, update_risk_score_ai and
\* unblock_user signed by a key other than the config's authority fail and
\* leave the profile or the entry as it was; when the accounts of the
\* instruction pass validation the error is UnauthorizedAccess.  Every one
\* of them that succeeded was signed by the authority.
C10_AdminNeedsAuthority ==
    /\ last.op \in AdminOps => last.signer = compliance_config.authority
    /\ compliance_config.exists =>
        \A k \in Keys \ {compliance_config.authority} :
            /\ \A a \in Addrs :
                   LET c == add_high_risk_address(k, a) IN
                   /\ c.out.result # "Ok"
                   /\ c.entry = risk_registry[a]
                   /\ ~risk_registry[a].exists
                          => c.out.result = "UnauthorizedAccess"
            /\ \A a \in Addrs :
                   LET c == whitelist_address(k, a) IN
                   /\ c.out.result # "Ok"
                   /\ c.entry = whitelist[a]
                   /\ ~whitelist[a].exists
                          => c.out.result = "UnauthorizedAccess"
            /\ \A u \in Users, ai \in AiUpdates, checks \in BOOLEAN :
                   LET c == update_risk_score_ai(k, u, ai[1], ai[2], checks) IN
                   /\ c.out.result # "Ok"
                   /\ c.profile = user_profile[u]
                   /\ user_profile[u].exists
                          => c.out.result = "UnauthorizedAccess"
            /\ \A u \in Users :
                   LET c == unblock_user(k, u) IN
                   /\ c.out.result # "Ok"
                   /\ c.profile = user_profile[u]
                   /\ user_profile[u].exists
                          => c.out.result = "UnauthorizedAccess"

\* A blocked profile and an address in neither list: each of the four
\* instructions would change an account if the authority signed it.
C10_Witness ==
    \E u \in Users, a \in Addrs :
        /\ compliance_config.exists
        /\ Keys \ {compliance_config.authority} # {}
        /\ user_profile[u].exists
        /\ user_profile[u].is_blocked
        /\ ~risk_registry[a].exists
        /\ ~whitelist[a].exists

\* C11 as stated: register_user_profile signed by a key other than the
\* config's authority fails with UnauthorizedAccess and creates no profile.
C11_RegisterNeedsAuthority ==
    compliance_config.exists =>
        \A k \in Keys \ {compliance_config.authority}, u \in Users,
           kyc \in KYCLevel :
            LET c == register_user_profile(k, u, kyc) IN
            ~user_profile[u].exists =>
                /\ c.out.result = "UnauthorizedAccess"
                /\ c.profile = user_profile[u]

\* A profile created by a register_user_profile that a key other than the
\* authority signed.
C11_Witness ==
    \E u \in Users :
        /\ compliance_config.exists
        /\ last.op = "register_user_profile"
        /\ last.signer # compliance_config.authority
        /\ user_profile[u].exists

HasFlag(flags, type) == \E i \in DOMAIN flags : flags[i].flag_type = type

\* C12: an evaluation at a slot at most 216000 after last_daily_reset_slot
\* does not reset the daily counters: the velocity and volume rules see
\* daily_transaction_count and daily_volume_usd as the last evaluation left
\* them (no other instruction writes them), last_daily_reset_slot stays,
\* and a non-blocked profile ends with the count raised by 1 and the
\* volume by usd_amount.
C12_NoResetWithinWindow ==
    [][\A u \in Users :
          user_profile[u].exists =>
              LET p == user_profile[u]
                  q == user_profile'[u]
                  cfg == compliance_config
              IN  IF ~Evaluated(u)
                  THEN /\ q.daily_transaction_count = p.daily_transaction_count
                       /\ q.daily_volume_usd = p.daily_volume_usd
                       /\ q.last_daily_reset_slot = p.last_daily_reset_slot
                  ELSE slot - p.last_daily_reset_slot <= 216000 =>
                       /\ q.last_daily_reset_slot = p.last_daily_reset_slot
                       /\ IF p.is_blocked
                          THEN /\ q.daily_transaction_count
                                      = p.daily_transaction_count
                               /\ q.daily_volume_usd = p.daily_volume_usd
                          ELSE /\ q.daily_transaction_count
                                      = p.daily_transaction_count + 1
                               /\ q.daily_volume_usd
                                      = p.daily_volume_usd + last'.usd_amount
                               /\ (HasFlag(last'.flags, "HighVelocity")
                                     <=> p.daily_transaction_count
                                             >= cfg.velocity_threshold)
                               /\ (HasFlag(last'.flags, "ExcessiveVolume")
                                     <=> p.daily_volume_usd + last'.usd_amount
                                             > cfg.max_daily_volume_usd)]_vars

\* A second evaluation exactly 216000 slots after the reset: the count of
\* the window is 2.
C12_Witness ==
    \E u \in Users :
        /\ LastRanRules
        /\ user_profile[u].exists
        /\ slot - user_profile[u].last_daily_reset_slot = 216000
        /\ user_profile[u].last_transaction_slot = slot
        /\ user_profile[u].daily_transaction_count = 2

\* C13: an evaluation at a slot more than 216000 after
\* last_daily_reset_slot sets last_daily_reset_slot to the slot and zeroes
\* the daily counters before the rules: the velocity and volume rules see
\* 0, and a non-blocked profile ends with daily_transaction_count = 1 and
\* daily_volume_usd = usd_amount (a blocked one with 0 and 0).
C13_ResetBeforeRules ==
    [][\A u \in Users :
          (/\ Evaluated(u)
           /\ slot - user_profile[u].last_daily_reset_slot > 216000)
          => LET p == user_profile[u]
                 q == user_profile'[u]
                 cfg == compliance_config
             IN  /\ q.last_daily_reset_slot = slot
                 /\ IF p.is_blocked
                    THEN /\ q.daily_transaction_count = 0
                         /\ q.daily_volume_usd = 0
                    ELSE /\ q.daily_transaction_count = 1
                         /\ q.daily_volume_usd = last'.usd_amount
                         /\ (HasFlag(last'.flags, "HighVelocity")
                               <=> 0 >= cfg.velocity_threshold)
                         /\ (HasFlag(last'.flags, "ExcessiveVolume")
                               <=> last'.usd_amount
                                       > cfg.max_daily_volume_usd)]_vars

\* The second transaction of a profile, evaluated after the window of the
\* first had elapsed: the count of the new window is 1 and the velocity
\* rule, which the count of the old window would have fired, did not fire.
C13_Witness ==
    \E u \in Users :
        /\ LastRanRules
        /\ user_profile[u].exists
        /\ user_profile[u].last_daily_reset_slot = slot
        /\ user_profile[u].last_transaction_slot = slot
        /\ user_profile[u].total_transaction_count = 2
        /\ user_profile[u].daily_transaction_count = 1
        /\ compliance_config.velocity_threshold = 1
        /\ ~HasFlag(last.flags, "HighVelocity")

\* C14 as stated: total_transaction_count and total_volume_usd of a profile
\* never decrease, whatever the instruction.
C14_TotalsNeverDecrease ==
    [][\A u \in Users :
          user_profile[u].exists =>
              /\ user_profile'[u].total_transaction_count
                     >= user_profile[u].total_transaction_count
              /\ user_profile'[u].total_volume_usd
                     >= user_profile[u].total_volume_usd]_vars

\* C15 as stated: in every reachable state the daily volume and count of a
\* profile are at most its total volume and count.
C15_DailyAtMostTotal ==
    \A u \in Users :
        user_profile[u].exists =>
            /\ user_profile[u].daily_volume_usd
                   <= user_profile[u].total_volume_usd
            /\ user_profile[u].daily_transaction_count
                   <= user_profile[u].total_transaction_count

\* C16 as stated: is_blocked becomes true only at an evaluation of the
\* profile at which its risk_score has reached the threshold of 100.
C16_BlockedOnlyAtEvaluation ==
    [][\A u \in Users :
          (/\ user_profile[u].exists
           /\ ~user_profile[u].is_blocked
           /\ user_profile'[u].is_blocked)
          => (/\ Evaluated(u)
              /\ user_profile'[u].risk_score >= 100)]_vars

\* C16: a profile is registered not blocked, and is_blocked becomes true
\* only at an evaluation that leaves risk_score above 100 or at an
\* update_risk_score_ai with an AI score above 90, which blocks without any
\* evaluation and whatever the blended score.
C16_BlockedByThresholdOrAi ==
    [][\A u \in Users :
          /\ (~user_profile[u].exists /\ user_profile'[u].exists)
                 => ~user_profile'[u].is_blocked
          /\ (/\ user_profile[u].exists
              /\ ~user_profile[u].is_blocked
              /\ user_profile'[u].is_blocked)
             => \/ /\ Evaluated(u)
                   /\ user_profile'[u].risk_score > 100
                \/ /\ ~Evaluated(u)
                   /\ last'.op = "update_risk_score_ai"
                   /\ \E ai \in AiUpdates :
                          /\ ai[1] > 90
                          /\ user_profile'[u].risk_score
                                 = (user_profile[u].risk_score + ai[1]) \div 2
      ]_vars

\* A profile that was never evaluated is blocked: an update_risk_score_ai
\* did it.
C16_Witness ==
    \E u \in Users :
        /\ last.op = "update_risk_score_ai"
        /\ user_profile[u].exists
        /\ user_profile[u].is_blocked
        /\ user_profile[u].total_transaction_count = 0
        /\ \A r \in transaction_record : r.key_user # u

\* C17: risk_score never decreases in a monitor_transaction step; a step
\* that lowers it is an unblock_user or an update_risk_score_ai.
C17_ScoreLoweredOnlyByAdmin ==
    [][\A u \in Users :
          user_profile[u].exists =>
              /\ Evaluated(u) =>
                     user_profile'[u].risk_score >= user_profile[u].risk_score
              /\ user_profile'[u].risk_score < user_profile[u].risk_score
                     => last'.op \in {"unblock_user", "update_risk_score_ai"}
      ]_vars

\* An update_risk_score_ai has averaged a score of 250 down to 170.
C17_Witness ==
    \E u \in Users :
        /\ last.op = "update_risk_score_ai"
        /\ user_profile[u].exists
        /\ user_profile[u].risk_score = 170

\* The records the step created for recipient a.
NewRecordsTo(a) ==
    {r \in transaction_record' \ transaction_record : r.recipient = a}

\* C18 as stated: an evaluation of a non-blocked profile whose recipient is
\* present and active in the registry raises a Critical HighRiskRecipient
\* flag and returns Blocked.
C18_RegisteredRecipientBlocked ==
    [][\A u \in Users, a \in Addrs :
          (/\ Evaluated(u)
           /\ ~user_profile[u].is_blocked
           /\ NewRecordsTo(a) # {}
           /\ risk_registry[a].exists
           /\ risk_registry[a].is_active)
          => (/\ \E i \in DOMAIN last'.flags :
                     /\ last'.flags[i].flag_type = "HighRiskRecipient"
                     /\ last'.flags[i].severity = "Critical"
              /\ last'.status = "Blocked")]_vars

\* C19 as stated: an evaluation raises the HighRiskRecipient flag only when
\* its recipient is present and active in the registry.
C19_FlagOnlyForRegisteredRecipient ==
    [][\A u \in Users, a \in Addrs :
          (/\ Evaluated(u)
           /\ NewRecordsTo(a) # {}
           /\ HasFlag(last'.flags, "HighRiskRecipient"))
          => (/\ risk_registry[a].exists
              /\ risk_registry[a].is_active)]_vars

\* C20 as stated: an evaluation whose recipient is whitelisted never raises
\* the HighRiskRecipient flag.
C20_WhitelistExempts ==
    [][\A u \in Users, a \in Addrs :
          (/\ Evaluated(u)
           /\ NewRecordsTo(a) # {}
           /\ whitelist[a].exists
           /\ whitelist[a].is_active)
          => ~HasFlag(last'.flags, "HighRiskRecipient")]_vars

(* ------------------------------------------------------------------ *)
(* Unblocking                                                          *)
(* ------------------------------------------------------------------ *)

\* A step of unblock_user that succeeded.
Unblocked ==
    /\ last'.op = "unblock_user"
    /\ admin_calls' = admin_calls + 1

\* C21: unblock_user signed by the authority on a profile with risk score
\* s succeeds and leaves the profile with is_blocked = false and
\* risk_score = s div 2, every other field (the flags, is_flagged, the
\* counters, the volumes, the slots) as it was; an evaluation of a profile
\* that is not blocked, so the next one after the unblock, is not
\* short-circuited: it runs the rules and counts the transaction.
C21_UnblockHalvesAndReopens ==
    /\ [](\A u \in Users :
            (user_profile[u].exists /\ compliance_config.exists)
            => LET c == unblock_user(compliance_config.authority, u) IN
               /\ c.out.result = "Ok"
               /\ c.profile =
                    [user_profile[u] EXCEPT
                        !.is_blocked = FALSE,
                        !.risk_score = user_profile[u].risk_score \div 2])
    /\ [][/\ (Unblocked =>
                \E u \in Users :
                   /\ user_profile[u].exists
                   /\ user_profile' =
                        [user_profile EXCEPT ![u] =
                           [@ EXCEPT !.is_blocked = FALSE,
                                     !.risk_score = @ \div 2]])
          /\ \A u \in Users :
                (Evaluated(u) /\ ~user_profile[u].is_blocked)
                => /\ LastRanRules'
                   /\ user_profile'[u].total_transaction_count =
                        user_profile[u].total_transaction_count + 1
                   /\ user_profile'[u].last_transaction_slot = slot
                   /\ \E r \in transaction_record' \ transaction_record :
                         r.user = u /\ r.status = last'.status]_vars

\* A profile unblocked at a score of 250 (the only way to a score of 125)
\* was evaluated next: the rules ran, raised nothing and left the score
\* at 125, which is above the threshold.
C21_Witness ==
    /\ LastRanRules
    /\ last.flags = NoFlags
    /\ \E u \in Users :
          /\ user_profile[u].exists
          /\ user_profile[u].risk_score = 125
          /\ user_profile[u].total_transaction_count >= 1

(* ------------------------------------------------------------------ *)
(* The AI blend                                                        *)
(* ------------------------------------------------------------------ *)

\* A step of update_risk_score_ai that succeeded.
Blended ==
    /\ last'.op = "update_risk_score_ai"
    /\ admin_calls' = admin_calls + 1

\* The fields of a profile that the blend may write, masked.
BlendFrame(p) ==
    [p EXCEPT !.risk_score = 0, !.flags = <<>>, !.is_blocked = FALSE]

\* The flags from position `from` on.
FlagsFrom(flags, from) ==
    [i \in 1..(Len(flags) - from + 1) |-> flags[from + i - 1]]

\* What the blend appended to the flags of u in this step.
AppendedFlags(u) ==
    FlagsFrom(user_profile'[u].flags, Len(user_profile[u].flags) + 1)

\* C22: update_risk_score_ai signed by the authority leaves risk_score at
\* (old + ai_risk_score) div 2 and appends one AIAnomaly flag per anomaly
\* indicator, after the flags the profile had; the counters, the volumes,
\* the slots, the KYC level and is_flagged are unchanged.  The call fails
\* only when the flags no longer fit the account, and then changes
\* nothing.  (AI scores within the u32 range of the sum.)
C22_BlendAveragesAndAppends ==
    /\ [](\A u \in Users, ai \in AiBandUpdates, checks \in BOOLEAN :
            (user_profile[u].exists /\ compliance_config.exists)
            => LET p == user_profile[u]
                   c == update_risk_score_ai(compliance_config.authority,
                                             u, ai[1], ai[2], checks)
               IN  /\ c.out.result \in {"Ok", "AccountDidNotSerialize"}
                   /\ c.out.result = "Ok"
                        <=> Len(p.flags) + ai[2] <= MaxFlags
                   /\ c.out.result # "Ok" => c.profile = p
                   /\ c.out.result = "Ok" =>
                        /\ c.profile.risk_score = (p.risk_score + ai[1]) \div 2
                        /\ Len(c.profile.flags) = Len(p.flags) + ai[2]
                        /\ \A i \in DOMAIN p.flags :
                              c.profile.flags[i] = p.flags[i]
                        /\ \A i \in (Len(p.flags) + 1)..Len(c.profile.flags) :
                              c.profile.flags[i].flag_type = "AIAnomaly"
                        /\ BlendFrame(c.profile) = BlendFrame(p))
    /\ [][Blended =>
             \E u \in Users, ai \in AiBandUpdates :
                /\ user_profile[u].exists
                /\ user_profile'[u].risk_score =
                     (user_profile[u].risk_score + ai[1]) \div 2
                /\ Len(AppendedFlags(u)) = ai[2]
                /\ \A i \in DOMAIN AppendedFlags(u) :
                      AppendedFlags(u)[i].flag_type = "AIAnomaly"
                /\ BlendFrame(user_profile'[u]) = BlendFrame(user_profile[u])
                /\ \A v \in Users \ {u} :
                      user_profile'[v] = user_profile[v]]_vars

\* A profile with counted transactions was blended with an AI score of 25
\* and one indicator at a score of 0 or 1: the score is 12 or 13 (the
\* halving rounds down) and the one flag is the AI anomaly.
C22_Witness ==
    /\ last.op = "update_risk_score_ai"
    /\ \E u \in Users :
          /\ user_profile[u].exists
          /\ user_profile[u].risk_score \in {12, 13}
          /\ user_profile[u].total_transaction_count >= 1
          /\ Len(user_profile[u].flags) = 1
          /\ user_profile[u].flags[1].flag_type = "AIAnomaly"

\* The severity of an AI flag as the specification states it.
StatedAiSeverity(ai_risk_score) ==
    IF ai_risk_score > 90 THEN "Critical"
    ELSE IF ai_risk_score > 75 THEN "High"
    ELSE IF ai_risk_score > 50 THEN "Medium"
    ELSE "Low"

\* The flags that update_risk_score_ai, signed by the authority, appends
\* to the profile of u all have the severity sev.
BlendAppendsSeverity(u, ai, checks, sev) ==
    LET p == user_profile[u]
        c == update_risk_score_ai(compliance_config.authority, u,
                                  ai[1], ai[2], checks)
    IN  c.out.result = "Ok" =>
          /\ Len(c.profile.flags) = Len(p.flags) + ai[2]
          /\ \A i \in (Len(p.flags) + 1)..Len(c.profile.flags) :
                /\ c.profile.flags[i].flag_type = "AIAnomaly"
                /\ c.profile.flags[i].severity = sev

\* C23 as stated: the flags of a blend are Critical when the AI score is
\* above 90, High when it is in 76..90, Medium in 51..75 and Low up to 50.
C23_SeverityStepsAt90_75_50 ==
    \A u \in Users, ai \in AiBandUpdates, checks \in BOOLEAN :
        (user_profile[u].exists /\ compliance_config.exists)
        => BlendAppendsSeverity(u, ai, checks, StatedAiSeverity(ai[1]))

\* C23: every flag that a blend appends is Critical when the AI score is
\* above 75, High when it is in 51..75, Medium when it is in 26..50 and
\* Low when it is at most 25; a step of the blend appends flags of one
\* severity only.
C23_SeverityStepsAt75_50_25 ==
    /\ [](\A u \in Users, ai \in AiBandUpdates, checks \in BOOLEAN :
            (user_profile[u].exists /\ compliance_config.exists)
            => BlendAppendsSeverity(u, ai, checks,
                  CASE ai[1] > 75 -> "Critical"
                    [] ai[1] > 50 /\ ai[1] <= 75 -> "High"
                    [] ai[1] > 25 /\ ai[1] <= 50 -> "Medium"
                    [] ai[1] <= 25 -> "Low"))
    /\ [][Blended =>
             \E u \in Users, ai \in AiBandUpdates :
                /\ user_profile'[u].risk_score =
                     (user_profile[u].risk_score + ai[1]) \div 2
                /\ Len(AppendedFlags(u)) = ai[2]
                /\ \A i \in DOMAIN AppendedFlags(u) :
                      AppendedFlags(u)[i].severity =
                         (CASE ai[1] > 75 -> "Critical"
                            [] ai[1] > 50 /\ ai[1] <= 75 -> "High"
                            [] ai[1] > 25 /\ ai[1] <= 50 -> "Medium"
                            [] ai[1] <= 25 -> "Low")]_vars

\* A blend with an AI score of 76 at a score of 0 (the only way to a score
\* of 38 with one flag) appended a Critical flag.
C23_Witness ==
    /\ last.op = "update_risk_score_ai"
    /\ \E u \in Users :
          /\ user_profile[u].exists
          /\ user_profile[u].risk_score = 38
          /\ Len(user_profile[u].flags) = 1
          /\ user_profile[u].flags[1].flag_type = "AIAnomaly"
          /\ user_profile[u].flags[1].severity = "Critical"

\* C24: update_risk_score_ai signed by the authority leaves is_blocked
\* true when the AI score is above 90, whatever the number of indicators
\* and the blended score, and leaves is_blocked as it was when the AI
\* score is at most 90, also when the blended score is above 100.
C24_BlendBlocksOnlyAbove90 ==
    /\ [](\A u \in Users, ai \in AiUpdates \cup AiBandUpdates,
             checks \in BOOLEAN :
            (user_profile[u].exists /\ compliance_config.exists)
            => LET p == user_profile[u]
                   c == update_risk_score_ai(compliance_config.authority,
                                             u, ai[1], ai[2], checks)
               IN  c.out.result = "Ok" =>
                     c.profile.is_blocked =
                        (IF ai[1] > 90 THEN TRUE ELSE p.is_blocked))
    /\ [][Blended =>
             \E u \in Users, ai \in AiUpdates :
                /\ user_profile'[u].risk_score =
                     (user_profile[u].risk_score + ai[1]) \div 2
                /\ Len(AppendedFlags(u)) = ai[2]
                /\ user_profile'[u].is_blocked =
                     (IF ai[1] > 90 THEN TRUE
                      ELSE user_profile[u].is_blocked)]_vars

\* A profile that is not blocked at a score above 110 (it was unblocked):
\* the blend with an AI score of 90 succeeds, leaves a score above 100 and
\* the profile not blocked; and the blend with an AI score of 500 and no
\* indicator blocks it.
C24_Witness ==
    \E u \in Users :
        /\ user_profile[u].exists
        /\ compliance_config.exists
        /\ ~user_profile[u].is_blocked
        /\ LET c == update_risk_score_ai(compliance_config.authority, u,
                                         90, 1, FALSE)
               d == update_risk_score_ai(compliance_config.authority, u,
                                         500, 0, FALSE)
           IN  /\ c.out.result = "Ok"
               /\ c.profile.risk_score > BlockThreshold
               /\ ~c.profile.is_blocked
               /\ d.out.result = "Ok"
               /\ d.profile.is_blocked

(* ------------------------------------------------------------------ *)
(* Arithmetic                                                          *)
(* ------------------------------------------------------------------ *)

\* C25 as stated: no addition of an evaluation or of a blend wraps or
\* aborts: no call panics, and a call that succeeds leaves the sums
\* saturated at the largest value of their type.
C25_ArithmeticSaturates ==
    \A u \in Users, checks \in BOOLEAN :
        (CanEvaluate(u) /\ ~user_profile[u].is_blocked)
        => /\ \A tr \in LargeTransfers, rcp \in Recipients,
                 tt \in TransactionTypes :
                LET p == ResetDailyCounters(user_profile[u], slot)
                    c == monitor_transaction(u, tr[1], rcp, tt, tr[2],
                                             <<"none", "-">>, checks)
                    usd == get_usd_value_from_oracle(tr[2], tr[1]).value
                IN  /\ c.out.result # "ProgramPanicked"
                    /\ c.out.result = "Ok" =>
                         /\ c.profile.total_volume_usd =
                              Min(U64Max, p.total_volume_usd + usd)
                         /\ c.profile.daily_volume_usd =
                              Min(U64Max, p.daily_volume_usd + usd)
                         /\ c.profile.total_transaction_count =
                              Min(U64Max, p.total_transaction_count + 1)
                         /\ c.profile.daily_transaction_count =
                              Min(U32Max, p.daily_transaction_count + 1)
           /\ \A ai \in AiUpdates :
                LET c == update_risk_score_ai(compliance_config.authority,
                                              u, ai[1], ai[2], checks)
                IN  /\ c.out.result # "ProgramPanicked"
                    /\ c.out.result = "Ok" =>
                         c.profile.risk_score =
                            Min(U32Max, user_profile[u].risk_score + ai[1])
                               \div 2

(* ------------------------------------------------------------------ *)
(* Transaction records                                                 *)
(* ------------------------------------------------------------------ *)

\* C26 as stated: an evaluation that returns a verdict, the short circuit
\* of a blocked profile included, leaves exactly one new transaction
\* record, whose verdict is the one returned and whose user, recipient,
\* USD amount, flags and slot are those of the evaluation; no step
\* removes or changes a record.
C26_RecordMatchesVerdict ==
    [][/\ transaction_record \subseteq transaction_record'
       /\ \A u \in Users :
             Evaluated(u) =>
                /\ Cardinality(transaction_record' \ transaction_record) = 1
                /\ \A r \in transaction_record' \ transaction_record :
                      /\ r.user = u
                      /\ r.status = last'.status
                      /\ r.recipient \in Recipients
                      /\ r.amount_usd = last'.usd_amount
                      /\ r.flags = last'.flags
                      /\ r.processed_at_slot = slot]_vars

(* ------------------------------------------------------------------ *)
(* Registration                                                        *)
(* ------------------------------------------------------------------ *)

\* A step of register_user_profile that succeeded for u.
Registered(u) == ~user_profile[u].exists /\ user_profile'[u].exists

\* C27: register_user_profile for a user without a profile succeeds and
\* creates the profile with the given KYC level, risk_score 0, the four
\* counters and volumes 0, is_flagged and is_blocked false, no flags and
\* last_daily_reset_slot the current slot; for a user with a profile it
\* fails and leaves the profile as it was, whoever signs.
C27_RegistrationZeroesProfile ==
    /\ [](\A k \in Keys, u \in Users, kyc \in KYCLevel :
            LET c == register_user_profile(k, u, kyc) IN
            IF user_profile[u].exists
            THEN /\ c.out.result # "Ok"
                 /\ c.profile = user_profile[u]
            ELSE /\ c.out.result = "Ok"
                 /\ c.profile.exists
                 /\ c.profile.user = u
                 /\ c.profile.kyc_level = kyc
                 /\ c.profile.risk_score = 0
                 /\ c.profile.total_transaction_count = 0
                 /\ c.profile.total_volume_usd = 0
                 /\ c.profile.daily_transaction_count = 0
                 /\ c.profile.daily_volume_usd = 0
                 /\ ~c.profile.is_flagged
                 /\ ~c.profile.is_blocked
                 /\ c.profile.flags = <<>>
                 /\ c.profile.last_daily_reset_slot = slot)
    /\ [][\A u \in Users :
            /\ Registered(u) =>
                 /\ last'.op = "register_user_profile"
                 /\ user_profile'[u].risk_score = 0
                 /\ user_profile'[u].total_transaction_count = 0
                 /\ user_profile'[u].total_volume_usd = 0
                 /\ user_profile'[u].daily_transaction_count = 0
                 /\ user_profile'[u].daily_volume_usd = 0
                 /\ ~user_profile'[u].is_flagged
                 /\ ~user_profile'[u].is_blocked
                 /\ user_profile'[u].flags = <<>>
                 /\ user_profile'[u].last_daily_reset_slot = slot
            /\ (user_profile[u].exists /\ last'.op = "register_user_profile")
                 => user_profile'[u] = user_profile[u]
            /\ user_profile[u].exists => user_profile'[u].exists]_vars

\* A profile was registered at a slot after 0 and starts its window there.
C27_Witness ==
    /\ last.op = "register_user_profile"
    /\ slot > 0
    /\ \E u \in Users :
          /\ user_profile[u].exists
          /\ user_profile[u].last_daily_reset_slot = slot
          /\ user_profile[u].risk_score = 0
          /\ user_profile[u].flags = <<>>

(* ------------------------------------------------------------------ *)
(* Configuration                                                       *)
(* ------------------------------------------------------------------ *)

\* C28 as stated: a config whose thresholds violate the sanity
\* constraints is rejected when it is created, so the config never has a
\* velocity threshold of 0 and no evaluation runs against such a config.
C28_NoEvaluationAtZeroVelocity ==
    [][/\ compliance_config'.exists
            => compliance_config'.velocity_threshold > 0
       /\ \A u \in Users :
             Evaluated(u) => compliance_config.velocity_threshold > 0]_vars

(* ------------------------------------------------------------------ *)
(* The KYC rules                                                       *)
(* ------------------------------------------------------------------ *)

\* The positions of the flags of a type.
FlagsOfType(flags, type) == {i \in DOMAIN flags : flags[i].flag_type = type}

\* C29: an evaluation of a profile that is not blocked and has KYC level
\* None raises, when usd_amount is above 1000, exactly one KYCRequired
\* flag, of severity High, and returns Blocked; when usd_amount is at most
\* 1000 it raises no KYCRequired flag.  It never raises KYCUpgradeRequired.
C29_KycNoneBlocksAbove1000 ==
    [][\A u \in Users :
          (/\ Evaluated(u)
           /\ ~user_profile[u].is_blocked
           /\ user_profile[u].kyc_level = "None")
          => LET f == last'.flags
                 k == FlagsOfType(f, "KYCRequired")
             IN  /\ FlagsOfType(f, "KYCUpgradeRequired") = {}
                 /\ IF last'.usd_amount > 1000
                    THEN /\ Cardinality(k) = 1
                         /\ \A i \in k : f[i].severity = "High"
                         /\ last'.status = "Blocked"
                         /\ \A r \in transaction_record' \ transaction_record :
                               r.status = "Blocked"
                    ELSE k = {}]_vars

\* A KYC-None profile sent $1001, one dollar above the limit: the
\* evaluation raised KYCRequired and returned Blocked.
C29_Witness ==
    /\ LastRanRules
    /\ last.usd_amount = 1001
    /\ last.status = "Blocked"
    /\ HasFlag(last.flags, "KYCRequired")
    /\ \E u \in Users :
          /\ user_profile[u].exists
          /\ user_profile[u].kyc_level = "None"

\* C30: an evaluation of a profile that is not blocked and has KYC level
\* Basic raises, when usd_amount is above 10000, exactly one
\* KYCUpgradeRequired flag, of severity Medium, and none otherwise; that
\* flag does not force the block: the verdict is Blocked only when the
\* volume or the recipient rule fired or the score is above 100, and
\* Flagged otherwise.  It never raises KYCRequired.  An evaluation of a
\* profile with KYC level Enhanced raises neither flag, whatever the
\* amount.
C30_KycBasicOnlyFlags ==
    [][\A u \in Users :
          (Evaluated(u) /\ ~user_profile[u].is_blocked)
          => LET f == last'.flags
                 k == FlagsOfType(f, "KYCUpgradeRequired")
             IN  /\ user_profile[u].kyc_level = "Basic" =>
                      /\ FlagsOfType(f, "KYCRequired") = {}
                      /\ IF last'.usd_amount > 10000
                         THEN /\ Cardinality(k) = 1
                              /\ \A i \in k : f[i].severity = "Medium"
                              /\ last'.status = "Blocked"
                                   <=> \/ HasFlag(f, "ExcessiveVolume")
                                       \/ HasFlag(f, "HighRiskRecipient")
                                       \/ user_profile'[u].risk_score > 100
                              /\ last'.status # "Blocked"
                                   => last'.status = "Flagged"
                         ELSE k = {}
                 /\ user_profile[u].kyc_level = "Enhanced" =>
                      /\ FlagsOfType(f, "KYCRequired") = {}
                      /\ k = {}]_vars

\* A KYC-Basic profile sent $10001, one dollar above the limit: the
\* evaluation raised KYCUpgradeRequired and returned Flagged.
C30_Witness ==
    /\ LastRanRules
    /\ last.usd_amount = 10001
    /\ last.status = "Flagged"
    /\ HasFlag(last.flags, "KYCUpgradeRequired")
    /\ \E u \in Users :
          /\ user_profile[u].exists
          /\ user_profile[u].kyc_level = "Basic"
          /\ ~user_profile[u].is_blocked

(* ------------------------------------------------------------------ *)
(* The amount rules                                                    *)
(* ------------------------------------------------------------------ *)

\* The daily volume and count of u as an evaluation at the current slot
\* reads them: 0 when more than a day of slots passed since the last
\* reset.
DailyVolumeSeen(u) ==
    IF slot - user_profile[u].last_daily_reset_slot > 216000 THEN 0
    ELSE user_profile[u].daily_volume_usd

DailyCountSeen(u) ==
    IF slot - user_profile[u].last_daily_reset_slot > 216000 THEN 0
    ELSE user_profile[u].daily_transaction_count

\* C31: an evaluation of a profile that is not blocked raises an
\* ExcessiveVolume flag exactly when the daily volume it reads (after the
\* window check, before the increment) plus usd_amount is above
\* max_daily_volume_usd, and not when the sum equals it; the flag is
\* raised once, has severity High, and the verdict is then Blocked.
C31_VolumeRuleAboveLimit ==
    [][\A u \in Users :
          (Evaluated(u) /\ ~user_profile[u].is_blocked)
          => LET f == last'.flags
                 k == FlagsOfType(f, "ExcessiveVolume")
             IN  IF DailyVolumeSeen(u) + last'.usd_amount
                       > compliance_config.max_daily_volume_usd
                 THEN /\ Cardinality(k) = 1
                      /\ \A i \in k : f[i].severity = "High"
                      /\ last'.status = "Blocked"
                      /\ \A r \in transaction_record' \ transaction_record :
                            r.status = "Blocked"
                 ELSE k = {}]_vars

\* A second transfer in the window brought the daily volume to 12001,
\* one dollar above the limit, and was judged Blocked on the volume flag.
C31_Witness ==
    /\ LastRanRules
    /\ HasFlag(last.flags, "ExcessiveVolume")
    /\ last.status = "Blocked"
    /\ \E u \in Users :
          /\ user_profile[u].exists
          /\ user_profile[u].daily_volume_usd = 12001
          /\ user_profile[u].daily_transaction_count = 2

\* C32: an evaluation of a profile that is not blocked raises a
\* HighVelocity flag exactly when the daily count it reads (after the
\* window check, before its own increment) is at least velocity_threshold;
\* the flag is raised once and has severity Medium.  When it is the only
\* flag of the evaluation, the score grows by 5, and with a score of at
\* most 100 afterwards the verdict is Flagged and the profile is not
\* blocked.
C32_VelocityRuleFromThreshold ==
    [][\A u \in Users :
          (Evaluated(u) /\ ~user_profile[u].is_blocked)
          => LET f == last'.flags
                 k == FlagsOfType(f, "HighVelocity")
             IN  /\ IF DailyCountSeen(u) >= compliance_config.velocity_threshold
                    THEN /\ Cardinality(k) = 1
                         /\ \A i \in k : f[i].severity = "Medium"
                    ELSE k = {}
                 /\ (Len(f) = 1 /\ k # {}) =>
                      /\ user_profile'[u].risk_score =
                           user_profile[u].risk_score + 5
                      /\ user_profile[u].risk_score <= 95 =>
                           /\ last'.status = "Flagged"
                           /\ ~user_profile'[u].is_blocked]_vars

\* The second transfer of a window with a velocity threshold of 1 raised
\* the velocity flag alone: 5 points, Flagged, not blocked.
C32_Witness ==
    /\ LastRanRules
    /\ Len(last.flags) = 1
    /\ last.flags[1].flag_type = "HighVelocity"
    /\ last.status = "Flagged"
    /\ \E u \in Users :
          /\ user_profile[u].exists
          /\ user_profile[u].daily_transaction_count = 2
          /\ user_profile[u].risk_score = 5
          /\ ~user_profile[u].is_blocked

\* C33: an evaluation of a profile that is not blocked raises a
\* HighValueTransaction flag exactly when usd_amount is above
\* high_value_threshold_usd, and not when it equals it; the flag is raised
\* once and has severity High.  It does not force the block: when it is
\* the only flag of the evaluation the score grows by 15, and with a
\* score of at most 100 afterwards the verdict is Flagged and the profile
\* is not blocked.
C33_HighValueAboveThreshold ==
    [][\A u \in Users :
          (Evaluated(u) /\ ~user_profile[u].is_blocked)
          => LET f == last'.flags
                 k == FlagsOfType(f, "HighValueTransaction")
             IN  /\ IF last'.usd_amount
                          > compliance_config.high_value_threshold_usd
                    THEN /\ Cardinality(k) = 1
                         /\ \A i \in k : f[i].severity = "High"
                    ELSE k = {}
                 /\ (Len(f) = 1 /\ k # {}) =>
                      /\ user_profile'[u].risk_score =
                           user_profile[u].risk_score + 15
                      /\ user_profile[u].risk_score <= 85 =>
                           /\ last'.status = "Flagged"
                           /\ ~last'.should_block
                           /\ ~user_profile'[u].is_blocked]_vars

\* A transfer of $1501 against a threshold of 1500 raised the high-value
\* flag alone and was judged Flagged.
C33_Witness ==
    /\ LastRanRules
    /\ last.usd_amount = 1501
    /\ Len(last.flags) = 1
    /\ last.flags[1].flag_type = "HighValueTransaction"
    /\ last.status = "Flagged"
    /\ \E u \in Users :
          /\ user_profile[u].exists
          /\ user_profile[u].risk_score = 15
          /\ ~user_profile[u].is_blocked

(* ------------------------------------------------------------------ *)
(* The pattern rule                                                    *)
(* ------------------------------------------------------------------ *)

\* C34: an evaluation of a profile that is not blocked raises an
\* UnusualPattern flag exactly when fewer than 10 slots passed since
\* last_transaction_slot and total_transaction_count is above 0, so never
\* on the first counted transaction of a user; the flag is raised once
\* and has severity Medium.  The short-circuited evaluation of a blocked
\* profile leaves last_transaction_slot as it was.
C34_UnusualPatternWithin10Slots ==
    [][\A u \in Users :
          Evaluated(u) =>
             IF user_profile[u].is_blocked
             THEN user_profile'[u].last_transaction_slot =
                     user_profile[u].last_transaction_slot
             ELSE LET f == last'.flags
                      k == FlagsOfType(f, "UnusualPattern")
                  IN  /\ IF /\ slot - user_profile[u].last_transaction_slot < 10
                            /\ user_profile[u].total_transaction_count > 0
                         THEN /\ Cardinality(k) = 1
                              /\ \A i \in k : f[i].severity = "Medium"
                         ELSE k = {}
                      /\ user_profile[u].total_transaction_count = 0 => k = {}
                      /\ user_profile'[u].last_transaction_slot = slot]_vars

\* A profile counted a transaction at slot 0; the evaluation at slot 10,
\* exactly 10 slots later, ran the rules and raised the velocity flag but
\* not the pattern flag.
C34_Witness ==
    /\ LastRanRules
    /\ slot = 10
    /\ HasFlag(last.flags, "HighVelocity")
    /\ ~HasFlag(last.flags, "UnusualPattern")
    /\ \E u \in Users :
          /\ user_profile[u].exists
          /\ user_profile[u].total_transaction_count = 2
          /\ user_profile[u].last_transaction_slot = 10

(* ------------------------------------------------------------------ *)
(* The flags of one evaluation                                         *)
(* ------------------------------------------------------------------ *)

TypeIf(cond, type) == IF cond THEN <<type>> ELSE <<>>

FlagTypes(flags) == [i \in DOMAIN flags |-> flags[i].flag_type]

\* The flag types of an evaluation of u with the given USD amount in the
\* current state, in the order in which the rules are declared; hrr says
\* whether the recipient rule fired.
DeclaredOrder(u, usd, hrr) ==
    LET p == user_profile[u]
        cfg == compliance_config
    IN  TypeIf(usd > cfg.high_value_threshold_usd, "HighValueTransaction")
        \o TypeIf(DailyCountSeen(u) >= cfg.velocity_threshold, "HighVelocity")
        \o TypeIf(DailyVolumeSeen(u) + usd > cfg.max_daily_volume_usd,
                  "ExcessiveVolume")
        \o TypeIf(hrr, "HighRiskRecipient")
        \o TypeIf(slot - p.last_transaction_slot < 10
                     /\ p.total_transaction_count > 0, "UnusualPattern")
        \o TypeIf(p.kyc_level = "None" /\ usd > 1000, "KYCRequired")
        \o TypeIf(p.kyc_level = "Basic" /\ usd > 10000, "KYCUpgradeRequired")

\* C35: an evaluation of a profile that is not blocked raises the flag of
\* every rule whose condition holds, also of the rules declared after one
\* that forces the block, in the order HighValue, Velocity,
\* ExcessiveVolume, HighRiskRecipient, UnusualPattern, KYC; the
\* transaction record holds these flags in this order, and the profile's
\* flags are the former ones followed by these in this order.
C35_AllRulesInDeclaredOrder ==
    [][\A u \in Users :
          (Evaluated(u) /\ ~user_profile[u].is_blocked)
          => LET f == last'.flags IN
             /\ \E hrr \in BOOLEAN :
                   FlagTypes(f) = DeclaredOrder(u, last'.usd_amount, hrr)
             /\ \A r \in transaction_record' \ transaction_record :
                   r.flags = f
             /\ user_profile'[u].flags = user_profile[u].flags \o f]_vars

\* An evaluation raised the high-value, velocity, volume and recipient
\* flags, in this order: the volume rule, which forces the block, did not
\* suppress the recipient rule.
C35_Witness ==
    /\ LastRanRules
    /\ FlagTypes(last.flags) =
          <<"HighValueTransaction", "HighVelocity", "ExcessiveVolume",
            "HighRiskRecipient">>
    /\ \E u \in Users, r \in transaction_record :
          /\ user_profile[u].exists
          /\ user_profile[u].flags = last.flags
          /\ r.flags = last.flags

(* ------------------------------------------------------------------ *)
(* Counting                                                            *)
(* ------------------------------------------------------------------ *)

\* C36: every evaluation of a profile that is not blocked, whatever its
\* verdict, raises total_transaction_count by 1 and total_volume_usd by
\* usd_amount, leaves the daily count and volume at the values it read
\* after the window check plus 1 and plus usd_amount, and sets
\* last_transaction_slot to the current slot; so a transaction that a rule
\* judged Blocked counts for the velocity and volume rules of the next
\* evaluation.
C36_EveryVerdictCounts ==
    [][\A u \in Users :
          (Evaluated(u) /\ ~user_profile[u].is_blocked)
          => /\ last'.status \in {"Approved", "Flagged", "Blocked"}
             /\ user_profile'[u].total_transaction_count =
                  user_profile[u].total_transaction_count + 1
             /\ user_profile'[u].total_volume_usd =
                  user_profile[u].total_volume_usd + last'.usd_amount
             /\ user_profile'[u].daily_transaction_count =
                  DailyCountSeen(u) + 1
             /\ user_profile'[u].daily_volume_usd =
                  DailyVolumeSeen(u) + last'.usd_amount
             /\ user_profile'[u].last_transaction_slot = slot]_vars

\* The first transfer, of $1500 without KYC, was judged Blocked by the
\* KYC rule and counted; the second raised the velocity flag on that
\* count.
C36_Witness ==
    /\ LastRanRules
    /\ FlagTypes(last.flags) = <<"HighVelocity">>
    /\ \E u \in Users :
          /\ user_profile[u].exists
          /\ FlagTypes(user_profile[u].flags) = <<"KYCRequired", "HighVelocity">>
          /\ user_profile[u].total_transaction_count = 2
          /\ user_profile[u].daily_transaction_count = 2
          /\ user_profile[u].total_volume_usd = 2000
          /\ user_profile[u].daily_volume_usd = 2000
          /\ \E r \in transaction_record :
                r.status = "Blocked" /\ r.amount_usd = 1500

(* ------------------------------------------------------------------ *)
(* The flag history                                                    *)
(* ------------------------------------------------------------------ *)

\* The sequence s is a prefix of the sequence t.
IsPrefix(s, t) ==
    /\ Len(s) <= Len(t)
    /\ \A i \in DOMAIN s : t[i] = s[i]

\* C37: in every step the flags of a profile before the step are a prefix
\* of its flags after it, each with its type, severity and slot; an
\* evaluation that ran the rules appends exactly the flags it raised, a
\* short-circuited evaluation and an unblock leave the flags as they
\* were, and a blend appends AIAnomaly flags only.
C37_FlagHistoryAppendOnly ==
    [][\A u \in Users :
          user_profile[u].exists =>
             /\ IsPrefix(user_profile[u].flags, user_profile'[u].flags)
             /\ Evaluated(u) =>
                  user_profile'[u].flags =
                     IF user_profile[u].is_blocked THEN user_profile[u].flags
                     ELSE user_profile[u].flags \o last'.flags
             /\ Unblocked => user_profile'[u].flags = user_profile[u].flags
             /\ Blended =>
                  \A i \in DOMAIN AppendedFlags(u) :
                     AppendedFlags(u)[i].flag_type = "AIAnomaly"
             /\ ~(Evaluated(u) \/ Blended) =>
                  user_profile'[u].flags = user_profile[u].flags]_vars

\* A profile with a flag of a blend and a flag of an evaluation was
\* unblocked and kept both.
C37_Witness ==
    /\ last.op = "unblock_user"
    /\ \E u \in Users :
          /\ user_profile[u].exists
          /\ Len(user_profile[u].flags) >= 2
          /\ HasFlag(user_profile[u].flags, "AIAnomaly")
          /\ \E i \in DOMAIN user_profile[u].flags :
                user_profile[u].flags[i].flag_type # "AIAnomaly"

\* C38 as stated: in every reachable state is_flagged of a profile is
\* true exactly when its flag history is not empty, the flags of a blend
\* included.
C38_FlaggedIffHistory ==
    \A u \in Users :
        user_profile[u].exists =>
            (user_profile[u].is_flagged <=> user_profile[u].flags # <<>>)

(* ------------------------------------------------------------------ *)
(* Runs without admin actions                                          *)
(* ------------------------------------------------------------------ *)

\* No update_risk_score_ai and no unblock_user succeeded so far.
NoAdminAction == admin_calls = 0

\* The fields of a profile that the window check may write, masked.
WindowFrame(p) ==
    [p EXCEPT !.daily_transaction_count = 0, !.daily_volume_usd = 0,
              !.last_daily_reset_slot = 0]

\* C39 as stated: without admin actions a profile is blocked exactly when
\* its risk_score is above 100, and no step changes the risk_score, the
\* counters (total and daily) or the flags of a blocked profile.
C39_BlockedProfileFrozen ==
    [][\A u \in Users :
          (user_profile[u].exists /\ NoAdminAction)
          => /\ user_profile[u].is_blocked
                  <=> user_profile[u].risk_score > 100
             /\ user_profile[u].is_blocked =>
                  user_profile'[u] =
                     [user_profile[u] EXCEPT
                         !.last_daily_reset_slot =
                            user_profile'[u].last_daily_reset_slot]]_vars

\* C39: without admin actions a profile is blocked exactly when its
\* risk_score is above 100, and no step changes the risk_score, the total
\* count and volume, the flags, is_flagged, is_blocked or
\* last_transaction_slot of a blocked profile; its daily count and volume
\* change only at an evaluation more than a day of slots after the last
\* reset, which sets them to 0 and last_daily_reset_slot to the current
\* slot.
C39_BlockedProfileFrozenButWindow ==
    /\ [](\A u \in Users :
            (user_profile[u].exists /\ NoAdminAction)
            => (user_profile[u].is_blocked
                  <=> user_profile[u].risk_score > 100))
    /\ [][\A u \in Users :
            (user_profile[u].exists /\ NoAdminAction'
               /\ user_profile[u].is_blocked)
            => /\ WindowFrame(user_profile'[u]) = WindowFrame(user_profile[u])
               /\ \/ user_profile'[u] = user_profile[u]
                  \/ /\ Evaluated(u)
                     /\ slot - user_profile[u].last_daily_reset_slot > 216000
                     /\ user_profile'[u].daily_transaction_count = 0
                     /\ user_profile'[u].daily_volume_usd = 0
                     /\ user_profile'[u].last_daily_reset_slot = slot]_vars

\* Two evaluations in one window blocked a profile at a score of 105
\* without any admin action; the evaluation after the window had elapsed
\* was short-circuited and reset the daily counters.
C39_Witness ==
    /\ NoAdminAction
    /\ LastShortCircuited
    /\ \E u \in Users :
          /\ user_profile[u].exists
          /\ user_profile[u].is_blocked
          /\ user_profile[u].risk_score > 100
          /\ user_profile[u].total_transaction_count = 2
          /\ user_profile[u].daily_transaction_count = 0
          /\ user_profile[u].last_daily_reset_slot = slot

\* The evaluations of u so far that raised a flag: each left a record
\* with its flags.
FlaggedEvaluations(u) ==
    Cardinality({r \in transaction_record :
                    r.key_user = u /\ r.flags # NoFlags})

====
